---- MODULE Spec2Model ----
\* Terminal session coordinator of the Aider chat extension:
\*   AiderProcess (pseudo-terminal lifecycle, stream interception, prompt
\*   detection) and AiderChatViewProvider (size negotiation with the webview).
\* Text is modelled as a sequence of one-character tokens; the tokens "ESC",
\* "LF", "CR" and "TAB" stand for the bytes 0x1B, 0x0A, 0x0D and 0x09.
EXTENDS Integers, Sequences, FiniteSets, TLC

\* ---------------------------------------------------------------------------
\* Bounds of the model
\* ---------------------------------------------------------------------------
MaxChunks == 3
MaxGen == 4
MaxChildren == 2
MaxTasks == 2
MaxHistory == 2
MaxRequests == 2
MaxTrace == 4
MaxCallbacks == 2

\* ---------------------------------------------------------------------------
\* Program constants
\* ---------------------------------------------------------------------------
MAX_TAIL == 16
TERMINAL_COLS == 80
TERMINAL_ROWS == 24
ESC == "ESC"
CPR_SEQ == <<"ESC", "[", "6", "n">>
CPR_RESP == <<"ESC", "[", "2", "4", ";", "1", "R">>
DEFAULT_MODEL == "ollama/deepseek-coder-v2:16b"

TxtPressReturn == <<"P", "r", "e", "s", "s", " ", "R", "E", "T", "U", "R", "N", " ", "t", "o", " ", "c", "o", "n", "t", "i", "n", "u", "e">>
TxtPressEnter == <<"P", "r", "e", "s", "s", " ", "E", "n", "t", "e", "r", " ", "t", "o", " ", "c", "o", "n", "t", "i", "n", "u", "e">>
TxtPressAnyKey == <<"P", "r", "e", "s", "s", " ", "a", "n", "y", " ", "k", "e", "y", " ", "t", "o", " ", "c", "o", "n", "t", "i", "n", "u", "e">>
TxtWarning == <<"W", "A", "R", "N", "I", "N", "G", ":", " ", "t", "e", "r", "m", "i", "n", "a", "l", " ", "i", "s", " ", "n", "o", "t", " ", "f", "u", "l", "l", "y", " ", "f", "u", "n", "c", "t", "i", "o", "n", "a", "l">>
TxtYn == <<"(", "y", "/", "n", ")">>
TxtYN1 == <<"[", "y", "/", "N", "]">>
TxtYN2 == <<"[", "Y", "/", "n", "]">>
TxtIncPressReturn == <<"p", "r", "e", "s", "s", " ", "r", "e", "t", "u", "r", "n">>
TxtIncPressEnter == <<"p", "r", "e", "s", "s", " ", "e", "n", "t", "e", "r">>
TxtIncPressAnyKey == <<"p", "r", "e", "s", "s", " ", "a", "n", "y", " ", "k", "e", "y">>
TxtExit == <<"/", "e", "x", "i", "t", "CR">>
TxtCR == <<"CR">>

\* ---------------------------------------------------------------------------
\* State
\* ---------------------------------------------------------------------------
VARIABLES
  process,             \* AiderProcess.process: 0 (null) or the id of a child
  currentModel,        \* AiderProcess._currentModel
  incomingBuffer,      \* AiderProcess.incomingBuffer
  dataCallbacks,       \* registered callbacks, in registration order
  exitCallbacks,
  errorCallbacks,
  promptCallbacks,
  pendingAiderStart,   \* AiderChatViewProvider.pendingAiderStart
  conversationHistory, \* number of entries of the provider's history
  children,            \* the pseudo-terminal children ever spawned
  tasks,               \* the asynchronous calls in flight and their position
  pipeOk,              \* whether a write to the pseudo-terminal succeeds now
  stream,              \* the bytes the child emits (stream interceptor runs)
  pos,                 \* how many of them have been delivered in chunks
  chunks,              \* how many chunks have been delivered
  requests,            \* history: how many Pending Start Requests were recorded
  trace                \* history: callback deliveries and pty writes, in order

cbVars == <<dataCallbacks, exitCallbacks, errorCallbacks, promptCallbacks>>
provVars == <<pendingAiderStart, conversationHistory>>
streamVars == <<stream, pos, chunks>>
vars == <<process, currentModel, incomingBuffer, cbVars, provVars, children,
          tasks, pipeOk, streamVars, requests, trace>>

\* ---------------------------------------------------------------------------
\* Strings
\* ---------------------------------------------------------------------------
UpperCase == <<"A","B","C","D","E","F","G","H","I","J","K","L","M",
               "N","O","P","Q","R","S","T","U","V","W","X","Y","Z">>
LowerCase == <<"a","b","c","d","e","f","g","h","i","j","k","l","m",
               "n","o","p","q","r","s","t","u","v","w","x","y","z">>
WhiteSpace == {" ", "LF", "CR", "TAB"}

UpperSet == {UpperCase[i] : i \in 1..26}
ToLowerChar(c) ==
  IF c \in UpperSet THEN LowerCase[CHOOSE i \in 1..26 : UpperCase[i] = c] ELSE c

toLowerCase(s) == [i \in 1..Len(s) |-> ToLowerChar(s[i])]

\* String.prototype.slice(a, b) for 0 <= a, b <= length
Slice(s, a, b) == SubSeq(s, a + 1, b)

OccursAt(s, p, i) ==
  /\ i + Len(p) <= Len(s)
  /\ \A k \in 1..Len(p) : s[i + k] = p[k]

RECURSIVE IndexFrom(_, _, _)
IndexFrom(s, p, i) ==
  IF i + Len(p) > Len(s) THEN -1
  ELSE IF OccursAt(s, p, i) THEN i
  ELSE IndexFrom(s, p, i + 1)

\* String.prototype.indexOf: first position (from 0) of p in s, or -1
IndexOf(s, p) == IndexFrom(s, p, 0)

\* String.prototype.includes
Includes(s, p) == \E i \in 0..(Len(s) - Len(p)) : OccursAt(s, p, i)

\* String.prototype.trim
TrimStart(s) ==
  IF \A i \in 1..Len(s) : s[i] \in WhiteSpace THEN <<>>
  ELSE SubSeq(s, CHOOSE i \in 1..Len(s) :
                   s[i] \notin WhiteSpace /\ \A j \in 1..(i - 1) : s[j] \in WhiteSpace,
              Len(s))
TrimEnd(s) ==
  IF \A i \in 1..Len(s) : s[i] \in WhiteSpace THEN <<>>
  ELSE SubSeq(s, 1, CHOOSE i \in 1..Len(s) :
                   s[i] \notin WhiteSpace /\ \A j \in (i + 1)..Len(s) : s[j] \in WhiteSpace)
trim(s) == TrimEnd(TrimStart(s))

\* ---------------------------------------------------------------------------
\* History events
\* ---------------------------------------------------------------------------
Ev(ev, cb, child, text, opt, kind, raw) ==
  [ev |-> ev, cb |-> cb, child |-> child, text |-> text, opt |-> opt,
   kind |-> kind, raw |-> raw]
DataEv(cb, text) == Ev("data", cb, 0, text, <<>>, "", text)
PromptEv(cb, text, opt, kind, raw) == Ev("prompt", cb, 0, text, opt, kind, raw)
WriteEv(child, text, ok) == Ev("write", 0, child, text, <<>>, IF ok THEN "ok" ELSE "fail", text)
ErrorEv(cb, context) == Ev("error", cb, 0, <<>>, <<>>, context, <<>>)
\* kind records what isRunning is when the callback is invoked
ExitEv(cb, child, running) ==
  Ev("exit", cb, child, <<>>, <<>>, IF running THEN "running" ELSE "idle", <<>>)

\* ---------------------------------------------------------------------------
\* AiderProcess: callbacks, prompt detection, stream interception
\* ---------------------------------------------------------------------------
isRunning == process # 0

\* the regular expressions of handleInteractivePrompt, all literal and /i
promptPatterns ==
  <<TxtPressReturn, TxtPressEnter, TxtPressAnyKey, TxtWarning, TxtYn, TxtYN1, TxtYN2>>

\* pattern.test(data) for a literal pattern with the i flag
RegexTest(pattern, data) ==
  \E i \in 0..(Len(data) - Len(pattern)) :
    \A k \in 1..Len(pattern) : ToLowerChar(data[i + k]) = ToLowerChar(pattern[k])

needsResponse(data) ==
  \E i \in 1..Len(promptPatterns) : RegexTest(promptPatterns[i], data)

\* data.toLowerCase().includes(lower)
LowerIncludes(data, lower) ==
  \E i \in 0..(Len(data) - Len(lower)) :
    \A k \in 1..Len(lower) : ToLowerChar(data[i + k]) = lower[k]

\* variant: the kind follows from which pattern matched, not from the text
IsContinuePrompt_ByPattern(data) ==
  \E i \in 1..3 : RegexTest(promptPatterns[i], data)

IsContinuePrompt(data) ==
  \/ LowerIncludes(data, TxtIncPressReturn)
  \/ LowerIncludes(data, TxtIncPressEnter)
  \/ LowerIncludes(data, TxtIncPressAnyKey)

PromptOptions(data) == IF IsContinuePrompt(data) THEN <<"Continue">> ELSE <<"Yes", "No">>
PromptType(data) == IF IsContinuePrompt(data) THEN "continue" ELSE "confirmation"

notifyError(tr, context) ==
  tr \o [i \in 1..Len(errorCallbacks) |-> ErrorEv(errorCallbacks[i], context)]

\* variant: an exception of a callback ends the delivery of the exit event
notifyExit_StopsAtThrow(running, tr, child) ==
  LET throwers == {i \in 1..Len(exitCallbacks) : exitCallbacks[i] = 2}
      last == IF throwers = {} THEN Len(exitCallbacks)
              ELSE CHOOSE i \in throwers : \A j \in throwers : i <= j
  IN tr \o [i \in 1..last |-> ExitEv(exitCallbacks[i], child, running)]

\* exitCallbacks.forEach(cb => { try { cb(exitInfo) } catch { handleError } })
notifyExit(running, tr, child) ==
  tr \o [i \in 1..Len(exitCallbacks) |-> ExitEv(exitCallbacks[i], child, running)]

\* variant: the exit callbacks run before the session reference is cleared
onExitHandler_NotifiesFirst(proc, tr, child) ==
  [proc |-> 0, tr |-> notifyExit(proc # 0, tr, child)]

\* the handler attachEventHandlers gives to process.onExit:
\* "this.process = null; this.notifyExit(processExitInfo)"
onExitHandler(proc, tr, child) ==
  LET cleared == 0
  IN [proc |-> cleared, tr |-> notifyExit(cleared # 0, tr, child)]

dispatchToCallbacks(tr, text) ==
  IF text = <<>> THEN tr
  ELSE tr \o [i \in 1..Len(dataCallbacks) |-> DataEv(dataCallbacks[i], text)]

\* returns whether the text was handled as a prompt, and the history after it
handleInteractivePrompt(tr, data) ==
  IF needsResponse(data)
  THEN [handled |-> TRUE,
        tr |-> tr \o [i \in 1..Len(promptCallbacks) |->
                 PromptEv(promptCallbacks[i], trim(data), PromptOptions(data),
                          PromptType(data), data)]]
  ELSE [handled |-> FALSE, tr |-> tr]

\* variant: a prompt is handed to the data callbacks as well
Forward_ToBothChannels(tr, text) ==
  dispatchToCallbacks(handleInteractivePrompt(tr, text).tr, text)

\* "if (!this.handleInteractivePrompt(t)) { this.dispatchToCallbacks(t); }"
Forward(tr, text) ==
  LET h == handleInteractivePrompt(tr, text)
  IN IF h.handled THEN h.tr ELSE dispatchToCallbacks(tr, text)

\* process.write on the pseudo-terminal of the current session
\* returns whether it threw, and the history after it
PtyWrite(tr, data) ==
  IF pipeOk THEN [threw |-> FALSE, tr |-> Append(tr, WriteEv(process, data, TRUE))]
  ELSE [threw |-> TRUE, tr |-> Append(tr, WriteEv(process, data, FALSE))]

\* variant: the response is dropped instead of written
sendRawData_NotWritten(tr, data) == [threw |-> FALSE, tr |-> tr]

sendRawData(tr, data) ==
  IF process = 0 THEN [threw |-> TRUE, tr |-> tr]
  ELSE LET w == PtyWrite(tr, data)
       IN IF w.threw THEN [threw |-> TRUE, tr |-> notifyError(w.tr, "send_raw_data")]
          ELSE w

\* variant: the response is written before the preceding text is forwarded
RECURSIVE CprLoop_RespondFirst(_, _)
CprLoop_RespondFirst(buf, tr) ==
  LET idx == IndexOf(buf, CPR_SEQ)
  IN IF idx = -1 THEN [buf |-> buf, tr |-> tr]
     ELSE LET before == Slice(buf, 0, idx)
              tr1 == sendRawData(tr, CPR_RESP).tr
              tr2 == IF before # <<>> THEN Forward(tr1, before) ELSE tr1
          IN CprLoop_RespondFirst(Slice(buf, idx + Len(CPR_SEQ), Len(buf)), tr2)

\* the while loop of notifyData over the complete queries in the buffer
RECURSIVE CprLoop(_, _)
CprLoop(buf, tr) ==
  LET idx == IndexOf(buf, CPR_SEQ)
  IN IF idx = -1 THEN [buf |-> buf, tr |-> tr]
     ELSE LET before == Slice(buf, 0, idx)
              tr1 == IF before # <<>> THEN Forward(tr, before) ELSE tr
              tr2 == sendRawData(tr1, CPR_RESP).tr
          IN CprLoop(Slice(buf, idx + Len(CPR_SEQ), Len(buf)), tr2)

\* variant: a buffer longer than the tail is flushed whole
TailRule_KeepNothing(st) ==
  IF Len(st.buf) > MAX_TAIL
  THEN [buf |-> <<>>, tr |-> Forward(st.tr, st.buf)]
  ELSE st

\* variant: the flushed part overlaps the retained tail by one character
TailRule_Overlap(st) ==
  IF Len(st.buf) > MAX_TAIL
  THEN LET sendable == Slice(st.buf, 0, Len(st.buf) - MAX_TAIL + 1)
       IN [buf |-> Slice(st.buf, Len(st.buf) - MAX_TAIL, Len(st.buf)),
           tr |-> IF sendable # <<>> THEN Forward(st.tr, sendable) ELSE st.tr]
  ELSE st

\* "if (this.incomingBuffer.length > MAX_TAIL)": flush all but the tail
TailRule(st) ==
  IF Len(st.buf) > MAX_TAIL
  THEN LET sendable == Slice(st.buf, 0, Len(st.buf) - MAX_TAIL)
       IN [buf |-> Slice(st.buf, Len(st.buf) - MAX_TAIL, Len(st.buf)),
           tr |-> IF sendable # <<>> THEN Forward(st.tr, sendable) ELSE st.tr]
  ELSE st

\* variant: the remainder is flushed without looking for an ESC in it
SafeToFlush_NoEscCheck(buf) == buf # <<>>

\* "if (this.incomingBuffer && this.incomingBuffer.indexOf('\x1b') === -1)"
SafeToFlush(buf) == buf # <<>> /\ IndexOf(buf, <<ESC>>) = -1

\* variant: the flushed remainder is left in the buffer as well
FlushRule_KeepsCopy(st) ==
  IF SafeToFlush(st.buf) THEN [buf |-> st.buf, tr |-> Forward(st.tr, st.buf)]
  ELSE st

FlushRule(st) ==
  IF SafeToFlush(st.buf) THEN [buf |-> <<>>, tr |-> Forward(st.tr, st.buf)]
  ELSE st

\* notifyData(data): the buffer and the history after the chunk
notifyData(data) ==
  FlushRule(TailRule(CprLoop(incomingBuffer \o data, trace)))

\* ---------------------------------------------------------------------------
\* AiderChatViewProvider: the callbacks it registers on its AiderProcess
\* ---------------------------------------------------------------------------
ProviderCb == 1
NoPending == [model |-> "", workspaceFolder |-> ""]

Min(a, b) == IF a < b THEN a ELSE b

\* entries the provider's data, exit and error callbacks add to its history
\* (updateConversation / addConversationEntry) for the events after `from`
RECURSIVE EntriesAdded(_, _)
EntriesAdded(tr, from) ==
  IF from >= Len(tr) THEN 0
  ELSE LET e == tr[from + 1]
           n == IF e.cb # ProviderCb THEN 0
                ELSE IF e.ev = "exit" THEN 2
                ELSE IF e.ev \in {"data", "error"} THEN 1 ELSE 0
       IN n + EntriesAdded(tr, from + 1)

HistoryAfter(tr) == Min(MaxHistory, conversationHistory + EntriesAdded(tr, Len(trace)))

\* ---------------------------------------------------------------------------
\* The child's argument list: buildAiderArgs and ~/.aider.conf.yml
\* ---------------------------------------------------------------------------
\* what buildAiderArgs finds: the setting aider.noPretty, and the file, which
\* is missing, unreadable (readFileSync throws), malformed (yaml.load throws),
\* empty (yaml.load gives no object), or a valid mapping with the keys
\* edit-format ("" when absent), show-diffs, restore-chat-history and
\* set-env (absent, a scalar, or a mapping given as its entries in order)
NoConfig ==
  [file |-> "missing", noPretty |-> FALSE, editFormat |-> "", showDiffs |-> FALSE,
   restore |-> FALSE, setEnv |-> "none", entries |-> <<>>]
ValidConfigs ==
  { [NoConfig EXCEPT !.file = "valid"],
    [NoConfig EXCEPT !.file = "valid", !.editFormat = "diff"],
    [NoConfig EXCEPT !.file = "valid", !.showDiffs = TRUE],
    [NoConfig EXCEPT !.file = "valid", !.restore = TRUE],
    [NoConfig EXCEPT !.file = "valid", !.setEnv = "scalar"],
    [NoConfig EXCEPT !.file = "valid", !.setEnv = "object",
                     !.entries = <<[key |-> "A", value |-> "1"]>>],
    [NoConfig EXCEPT !.file = "valid", !.restore = TRUE, !.editFormat = "diff"],
    [NoConfig EXCEPT !.file = "valid", !.showDiffs = TRUE, !.setEnv = "object",
                     !.entries = <<[key |-> "B", value |-> "1"], [key |-> "A", value |-> "2"]>>],
    [NoConfig EXCEPT !.file = "valid", !.editFormat = "diff", !.showDiffs = TRUE,
                     !.restore = TRUE, !.setEnv = "object",
                     !.entries = <<[key |-> "A", value |-> "1"], [key |-> "B", value |-> "2"]>>] }
Configs ==
  {[NoConfig EXCEPT !.file = f] : f \in {"missing", "unreadable", "malformed", "empty"}}
    \cup ValidConfigs
    \cup {[c EXCEPT !.noPretty = TRUE] :
            c \in {d \in ValidConfigs : d.showDiffs} \cup {NoConfig}}

\* the template literal `${key}=${value}`
KeyValue(e) ==
  IF e.key = "A" THEN (IF e.value = "1" THEN "A=1" ELSE "A=2")
  ELSE (IF e.value = "1" THEN "B=1" ELSE "B=2")

RECURSIVE SetEnvArgs(_)
SetEnvArgs(entries) ==
  IF entries = <<>> THEN <<>>
  ELSE <<"--set-env", KeyValue(Head(entries))>> \o SetEnvArgs(Tail(entries))

\* variant: the file is read and parsed outside the try block
buildAiderArgs_ThrowsOnBadFile(model, cfg) ==
  [threw |-> cfg.file \in {"unreadable", "malformed", "empty"},
   args |-> <<"--model", model, "--no-gui", "--no-browser", "--no-copy-paste">>]

\* buildAiderArgs(model): whether it threw, and the list it returned; what
\* the try block throws (readFileSync, yaml.load, a key of undefined) is
\* caught before anything was pushed
buildAiderArgs(model, cfg) ==
  LET base == <<"--model", model, "--no-gui", "--no-browser", "--no-copy-paste">>
      args1 == IF cfg.noPretty THEN Append(base, "--no-pretty") ELSE base
      args2 == IF cfg.editFormat # "" THEN args1 \o <<"--edit-format", cfg.editFormat>>
               ELSE args1
      args3 == IF cfg.showDiffs THEN Append(args2, "--show-diffs") ELSE args2
      args4 == IF cfg.restore THEN Append(args3, "--restore-chat-history") ELSE args3
      args5 == IF cfg.setEnv = "object" THEN args4 \o SetEnvArgs(cfg.entries) ELSE args4
  IN [threw |-> FALSE, args |-> IF cfg.file = "valid" THEN args5 ELSE args1]

\* ---------------------------------------------------------------------------
\* Children and asynchronous calls
\* ---------------------------------------------------------------------------
ChildIds == 1..MaxChildren
TaskIds == 1..MaxTasks

NoChild ==
  [state |-> "unborn", exitPending |-> FALSE, model |-> "", cwd |-> "",
   cols |-> 0, rows |-> 0, by |-> 0, args |-> <<>>, config |-> NoConfig]
\* an asynchronous call: kind is the handler that made it, pc the await it
\* is suspended at; text is the text it was given; req, victim and child
\* record, for the history, the request it consumed, the session active when
\* it was made and the child it spawned, and whether another startWithSize
\* was in flight during it
FreeTask ==
  [kind |-> "", pc |-> "free", model |-> "", cwd |-> "", cols |-> 0, rows |-> 0,
   text |-> <<>>, req |-> 0, victim |-> 0, child |-> 0, overlap |-> FALSE]

\* ---------------------------------------------------------------------------
\* Stream interceptor runs: one running session whose child emits `stream`,
\* delivered to notifyData in chunks cut at arbitrary places
\* ---------------------------------------------------------------------------
Pad(n) == [i \in 1..n |-> "x"]
GenAlphabet == {"ESC", "[", "6", "n", "x"}
GenStreams == UNION {[1..n -> GenAlphabet] : n \in 0..MaxGen}

TxtApplyChanges == <<"A", "p", "p", "l", "y", " ", "c", "h", "a", "n", "g", "e", "s", "?", " ", "(", "y", "/", "n", ")", "LF">>
TxtHello == <<"h", "e", "l", "l", "o", " ">>
TxtWorld == <<" ", "w", "o", "r", "l", "d">>
TxtColourReset == <<"ESC", "[", "0", "m">>

TxtOkYN == <<"o", "k", "?", " ", "[", "y", "/", "N", "]">>
\* the start of a query that is never completed, then ordinary output
TxtPartialThenText == <<"ESC", "[">> \o Pad(15)

ExampleStreams ==
  { TxtHello \o CPR_SEQ \o TxtWorld,
    Pad(17) \o CPR_SEQ \o Pad(1),
    <<"ESC", "[">> \o CPR_SEQ \o <<"6", "n">>,
    CPR_SEQ \o Pad(2) \o CPR_SEQ,
    TxtApplyChanges,
    TxtPressReturn,
    TxtYn \o Pad(16),
    TxtYn, TxtOkYN,
    TxtIncPressEnter \o TxtYn,
    TxtYn \o CPR_SEQ \o Pad(1) \o TxtColourReset,
    Pad(2) \o TxtColourReset \o Pad(2),
    TxtPartialThenText,
    Pad(18) }

Streams == GenStreams \cup ExampleStreams

RunningSession ==
  [state |-> "alive", exitPending |-> FALSE, model |-> DEFAULT_MODEL,
   cwd |-> "/ws", cols |-> TERMINAL_COLS, rows |-> TERMINAL_ROWS, by |-> 0,
   args |-> buildAiderArgs(DEFAULT_MODEL, NoConfig).args, config |-> NoConfig]

StreamInit ==
  /\ process = 1
  /\ currentModel = DEFAULT_MODEL
  /\ incomingBuffer = <<>>
  /\ dataCallbacks = <<ProviderCb>>
  /\ exitCallbacks = <<ProviderCb>>
  /\ errorCallbacks = <<ProviderCb>>
  /\ promptCallbacks = <<ProviderCb>>
  /\ pendingAiderStart = NoPending
  /\ conversationHistory = 0
  /\ children = [c \in ChildIds |-> IF c = 1 THEN RunningSession ELSE NoChild]
  /\ tasks = [t \in TaskIds |-> FreeTask]
  /\ pipeOk = TRUE
  /\ stream \in Streams
  /\ pos = 0
  /\ chunks = 0
  /\ requests = 0
  /\ trace = <<>>

\* the pty's data event: process.onData(data => this.notifyData(data))
Chunk(k) ==
  /\ process # 0
  /\ chunks < MaxChunks
  /\ pos + k <= Len(stream)
  /\ LET r == notifyData(SubSeq(stream, pos + 1, pos + k))
     IN /\ incomingBuffer' = r.buf
        /\ trace' = r.tr
        /\ conversationHistory' = HistoryAfter(r.tr)
  /\ pos' = pos + k
  /\ chunks' = chunks + 1
  /\ UNCHANGED <<process, currentModel, cbVars, pendingAiderStart, children,
                 tasks, pipeOk, stream, requests>>

StreamNext == \E k \in 1..Len(stream) : Chunk(k)

StreamSpec == StreamInit /\ [][StreamNext]_vars

\* what the child has emitted so far
Received == SubSeq(stream, 1, pos)

\* ---------------------------------------------------------------------------
\* Observations on the history
\* ---------------------------------------------------------------------------
RECURSIVE ConcatText(_), ConcatRaw(_)
ConcatText(evs) == IF evs = <<>> THEN <<>> ELSE Head(evs).text \o ConcatText(Tail(evs))
ConcatRaw(evs) == IF evs = <<>> THEN <<>> ELSE Head(evs).raw \o ConcatRaw(Tail(evs))

IsData(e) == e.ev = "data" /\ e.cb = ProviderCb
IsPrompt(e) == e.ev = "prompt" /\ e.cb = ProviderCb
IsForwarded(e) == IsData(e) \/ IsPrompt(e)
IsCprWrite(e) == e.ev = "write" /\ e.text = CPR_RESP

DataEvents == SelectSeq(trace, IsData)
PromptEvents == SelectSeq(trace, IsPrompt)
\* the text delivered to the data callbacks, in delivery order
DataConcat == ConcatText(DataEvents)
\* the fragments handed to the forward path (data or prompt), untrimmed
ForwardedConcat == ConcatRaw(SelectSeq(trace, IsForwarded))
CprWrites == SelectSeq(trace, IsCprWrite)

CountOcc(s, p) == Cardinality({i \in 0..(Len(s) - Len(p)) : OccursAt(s, p, i)})

\* s without its query occurrences, found left to right
RECURSIVE RemoveQueries(_)
RemoveQueries(s) ==
  LET idx == IndexOf(s, CPR_SEQ)
  IN IF idx = -1 THEN s
     ELSE Slice(s, 0, idx) \o RemoveQueries(Slice(s, idx + Len(CPR_SEQ), Len(s)))

EscFree(s) == ~Includes(s, <<ESC>>)

\* ---------------------------------------------------------------------------
\* Claims on the stream interceptor (StreamSpec)
\* ---------------------------------------------------------------------------

\* C3: when the bytes received so far contain exactly one cursor-position
\* query, however they were cut into chunks, the synthetic response has been
\* written to the child exactly once, no data fragment contains the query,
\* and what was forwarded plus what is still buffered is the received stream
\* with the query bytes taken out.
C3_OneQueryOneResponse ==
  CountOcc(Received, CPR_SEQ) = 1 =>
    /\ Len(CprWrites) = 1
    /\ CprWrites[1].child = process /\ CprWrites[1].kind = "ok"
    /\ \A i \in 1..Len(DataEvents) : ~Includes(DataEvents[i].text, CPR_SEQ)
    /\ ForwardedConcat \o incomingBuffer = RemoveQueries(Received)

\* a query cut into three chunks has been answered once
C3_Witness ==
  /\ Received = CPR_SEQ /\ chunks = 3
  /\ Len(CprWrites) = 1 /\ DataConcat = <<>>

\* C4 (as claimed): the text delivered to the data callbacks, concatenated in
\* delivery order, never contains the query sequence.
C4_NoQueryInDeliveredText == ~Includes(DataConcat, CPR_SEQ)

\* C5 (as claimed): for ESC-free input the text delivered to the data
\* callbacks equals the input and the buffer is empty.
C5_DataEqualsInput ==
  EscFree(Received) => (DataConcat = Received /\ incomingBuffer = <<>>)

\* C5 (amended): for ESC-free input the fragments forwarded, to the data
\* callbacks or (when a fragment matches a prompt pattern) to the prompt
\* callbacks, concatenate to the input exactly and the buffer is empty; the
\* data callbacks receive exactly the fragments that match no prompt pattern.
C5_ForwardedEqualsInput ==
  EscFree(Received) =>
    /\ ForwardedConcat = Received
    /\ incomingBuffer = <<>>
    /\ \A i \in 1..Len(trace) :
         /\ IsData(trace[i]) => ~needsResponse(trace[i].raw)
         /\ IsPrompt(trace[i]) => needsResponse(trace[i].raw)
    /\ (PromptEvents = <<>> => DataConcat = Received)

\* ESC-free input longer than the tail, in several chunks, part of it a prompt
C5_Witness ==
  /\ EscFree(Received) /\ Len(Received) > MAX_TAIL /\ chunks > 1
  /\ PromptEvents # <<>> /\ DataEvents # <<>>
  /\ ForwardedConcat = Received

\* C6 (as claimed): the single chunk "Apply changes? (y/n)LF" on an empty
\* buffer gives one Prompt Descriptor with options Yes, No and kind
\* confirmation, and nothing of it reaches the data callbacks.
C6_ApplyChangesIsPromptOnly ==
  (Received = TxtApplyChanges /\ chunks = 1) =>
    /\ Len(PromptEvents) = 1
    /\ PromptEvents[1].opt = <<"Yes", "No">>
    /\ PromptEvents[1].kind = "confirmation"
    /\ DataEvents = <<>>

\* C7 (as claimed): a chunk that contains a prompt pattern, arriving on an
\* empty buffer, gives a Prompt Descriptor (Continue for the continuation
\* prompts, Yes/No otherwise) and the matched text does not reach the data
\* callbacks, whatever the length of the chunk.
C7_PromptChunkIsDetected ==
  (chunks = 1 /\ needsResponse(Received)) =>
    /\ \E i \in 1..Len(PromptEvents) :
         PromptEvents[i].opt = PromptOptions(Received)
    /\ ~needsResponse(DataConcat)

\* positions (from 0) of the query occurrences of s, left to right
RECURSIVE QueryStartsFrom(_, _)
QueryStartsFrom(s, i) ==
  LET idx == IndexFrom(s, CPR_SEQ, i)
  IN IF idx = -1 THEN <<>>
     ELSE <<idx>> \o QueryStartsFrom(s, idx + Len(CPR_SEQ))
QueryStarts(s) == QueryStartsFrom(s, 0)

\* positions in the history of the writes of the synthetic response
CprWriteIndexes ==
  SelectSeq([i \in 1..Len(trace) |-> i], LAMBDA i : IsCprWrite(trace[i]))

\* the fragments handed to the forward path before the i-th history event
ForwardedBefore(i) == ConcatRaw(SelectSeq(SubSeq(trace, 1, i - 1), IsForwarded))

\* the longest proper prefix of the query sequence that the text s ends with
TrailingPrefix(s) ==
  LET fits(n) == n <= Len(s) /\ SubSeq(s, Len(s) - n + 1, Len(s)) = SubSeq(CPR_SEQ, 1, n)
  IN IF fits(3) THEN SubSeq(CPR_SEQ, 1, 3)
     ELSE IF fits(2) THEN SubSeq(CPR_SEQ, 1, 2)
     ELSE IF fits(1) THEN SubSeq(CPR_SEQ, 1, 1)
     ELSE <<>>

IsSuffix(p, s) == Len(p) <= Len(s) /\ SubSeq(s, Len(s) - Len(p) + 1, Len(s)) = p

\* C14: after every chunk, whatever the chunking, as many synthetic
\* responses have been written to the child as the received stream contains
\* queries; the k-th response is written after all the text that precedes the
\* k-th query was handed to the forward path, and before any text that
\* follows it.
C14_ResponsesFollowQueriesInOrder ==
  LET qs == QueryStarts(Received)
      ws == CprWriteIndexes
  IN /\ Len(ws) = Len(qs)
     /\ Len(qs) = CountOcc(Received, CPR_SEQ)
     /\ \A k \in 1..Len(ws) :
          /\ trace[ws[k]].kind = "ok" /\ trace[ws[k]].child = process
          /\ ForwardedBefore(ws[k]) = RemoveQueries(SubSeq(Received, 1, qs[k]))

\* two queries with text between them, in several chunks, both answered
C14_Witness ==
  /\ CountOcc(Received, CPR_SEQ) = 2 /\ chunks >= 2
  /\ Len(CprWrites) = 2 /\ DataConcat = Pad(2)
  /\ ForwardedBefore(CprWriteIndexes[2]) = Pad(2)

\* C15: with the chunks "hello ", ESC[6n, " world": the response is written
\* once, in the step that handles the second chunk, the data callbacks have
\* received "hello " by then, and after the third chunk they have received
\* "hello  world".
C15_HelloQueryWorld ==
  [][(stream = TxtHello \o CPR_SEQ \o TxtWorld) =>
       /\ (pos = 0 /\ pos' = Len(TxtHello)) =>
            (DataConcat' = TxtHello /\ CprWrites' = <<>>)
       /\ (pos = Len(TxtHello) /\ chunks = 1 /\ pos' = Len(TxtHello) + Len(CPR_SEQ)) =>
            /\ Len(CprWrites') = 1
            /\ trace'[Len(trace')] = WriteEv(process, CPR_RESP, TRUE)
            /\ DataConcat' = TxtHello /\ incomingBuffer' = <<>>
       /\ (pos = Len(TxtHello) + Len(CPR_SEQ) /\ chunks = 2 /\ pos' = Len(stream)) =>
            /\ DataConcat' = TxtHello \o TxtWorld
            /\ CprWrites' = CprWrites /\ Len(CprWrites) = 1
            /\ ~Includes(DataConcat', CPR_SEQ)]_vars

\* the three chunks have been handled
C15_Witness ==
  /\ stream = TxtHello \o CPR_SEQ \o TxtWorld /\ pos = Len(stream) /\ chunks = 3
  /\ trace = <<DataEv(ProviderCb, TxtHello), WriteEv(process, CPR_RESP, TRUE),
               DataEv(ProviderCb, TxtWorld)>>

\* C16: after every chunk the retained buffer has at most MAX_TAIL
\* characters, it is empty when it holds no ESC, and a partial query at the
\* end of the received stream is still in the buffer (not forwarded).
C16_BufferInvariant ==
  /\ Len(incomingBuffer) <= MAX_TAIL
  /\ (EscFree(incomingBuffer) => incomingBuffer = <<>>)
  /\ IsSuffix(TrailingPrefix(Received), incomingBuffer)
  /\ IsSuffix(incomingBuffer, Received)

\* a full tail is retained, ending with a partial query, after a flush
C16_Witness ==
  /\ Len(incomingBuffer) = MAX_TAIL
  /\ TrailingPrefix(Received) = <<"ESC", "[">>
  /\ DataEvents # <<>>

\* C17 (as claimed): a partial query at the end of the received stream whose
\* remainder does not arrive stays in the buffer: whatever chunk comes next,
\* none of its bytes is handed to the data or prompt callbacks.
C17_PartialQueryStaysBuffered ==
  [][LET p == TrailingPrefix(Received)
         c == SubSeq(stream, pos + 1, pos')
         continues == \/ OccursAt(p \o c, CPR_SEQ, 0)
                      \/ p \o c = SubSeq(CPR_SEQ, 1, Min(Len(p \o c), 3))
     IN (p # <<>> /\ pos' > pos /\ ~continues) =>
          Len(ForwardedConcat') <= Len(RemoveQueries(Received)) - Len(p)]_vars

\* ---------------------------------------------------------------------------
\* Session lifecycle: AiderProcess.startWithSize / stop and the pty's events
\* ---------------------------------------------------------------------------
Models == {DEFAULT_MODEL, "model-b"}
Sizes == {<<100, 30>>, <<120, 40>>}
\* vscode.workspace.workspaceFolders?.[0]?.uri.fsPath; "" stands for undefined
Workspaces == {"/ws", ""}
MsgTexts == {<<"h", "i">>, <<" ">>}

\* the bytes sanitizeInput removes: [\x00-\x08\x0B\x0C\x0E-\x1F\x7F]
StrippedBytes == {"NUL", "BEL", "BS", "VT", "FF", "ESC", "DEL"}
\* the control bytes: 0x00-0x1F and 0x7F
ControlBytes == StrippedBytes \cup {"TAB", "LF", "CR"}

\* variant: the class covers the whole range 0x00-0x1F
sanitizeInput_StripsAllControl(input) == SelectSeq(input, LAMBDA c : c \notin ControlBytes)

sanitizeInput(input) == SelectSeq(input, LAMBDA c : c \notin StrippedBytes)

\* variant: a failed write is rethrown without telling the error callbacks
sendMessage_SilentFailure(tr, message) ==
  IF process = 0 THEN [threw |-> TRUE, tr |-> tr]
  ELSE LET w == PtyWrite(tr, sanitizeInput(message) \o <<"CR">>)
       IN IF w.threw THEN [threw |-> TRUE, tr |-> w.tr] ELSE w

\* variant: a call without a session is reported to the error callbacks
sendMessage_NotifiesWhenIdle(tr, message) ==
  IF process = 0 THEN [threw |-> TRUE, tr |-> notifyError(tr, "send_message")]
  ELSE LET w == PtyWrite(tr, sanitizeInput(message) \o <<"CR">>)
       IN IF w.threw THEN [threw |-> TRUE, tr |-> notifyError(w.tr, "send_message")]
          ELSE w

sendMessage(tr, message) ==
  IF process = 0 THEN [threw |-> TRUE, tr |-> tr]
  ELSE LET w == PtyWrite(tr, sanitizeInput(message) \o <<"CR">>)
       IN IF w.threw THEN [threw |-> TRUE, tr |-> notifyError(w.tr, "send_message")]
          ELSE w

Alive(c) == children[c].state = "alive"
Unborn == {c \in ChildIds : children[c].state = "unborn"}
NewChild == CHOOSE c \in Unborn : \A d \in Unborn : c <= d

\* calls of startWithSize that have not reached pty.spawn yet
BeforeSpawn ==
  {t \in TaskIds : tasks[t].kind \in {"start", "ready"}
                   /\ tasks[t].pc \in {"stopDelay", "import"}}

\* model changes waiting for stop() before they record their request
Restarting == {t \in TaskIds : tasks[t].kind = "send" /\ tasks[t].pc = "stopDelay"}
\* a further Pending Start Request may be recorded within the bound
RequestBudget == requests + Cardinality(Restarting) < MaxRequests

\* IPty.kill(): the child dies, its exit event is delivered later
KillChild(ch, c) ==
  IF c # 0 /\ ch[c].state = "alive"
  THEN [ch EXCEPT ![c].state = "dead", ![c].exitPending = TRUE]
  ELSE ch

\* stop() with a session, up to "await this.delay(1000)"; when the write of
\* the exit command throws, the catch block kills and clears at once
StopBegin(tr) ==
  LET w == PtyWrite(tr, TxtExit)
  IN IF w.threw
     THEN [delay |-> FALSE, tr |-> w.tr, proc |-> 0, ch |-> KillChild(children, process)]
     ELSE [delay |-> TRUE, tr |-> w.tr, proc |-> process, ch |-> children]

\* calls of startWithSize that have not completed
Starting ==
  {t \in TaskIds : tasks[t].kind \in {"start", "ready"}
                   /\ tasks[t].pc \in {"stopDelay", "import", "capture"}}

\* the calls in flight, with the new call t added and the overlap recorded
WithCall(t, call) ==
  [u \in TaskIds |->
     IF u = t THEN [call EXCEPT !.overlap = (Starting # {})]
     ELSE IF u \in Starting THEN [tasks[u] EXCEPT !.overlap = TRUE]
     ELSE tasks[u]]

\* startWithSize(model, workspaceFolder, cols, rows) up to its first await
StartWithSizeBegin(t, kind, model, cwd, cols, rows, req) ==
  LET call == [FreeTask EXCEPT !.kind = kind, !.model = model, !.cwd = cwd,
                               !.cols = cols, !.rows = rows, !.req = req,
                               !.victim = process]
  IN IF isRunning
     THEN LET s == StopBegin(trace)
          IN /\ trace' = s.tr
             /\ process' = s.proc
             /\ children' = s.ch
             /\ IF s.delay
                THEN /\ tasks' = WithCall(t, [call EXCEPT !.pc = "stopDelay"])
                     /\ UNCHANGED currentModel
                ELSE /\ tasks' = WithCall(t, [call EXCEPT !.pc = "import"])
                     /\ currentModel' = model
     ELSE /\ tasks' = WithCall(t, [call EXCEPT !.pc = "import"])
          /\ currentModel' = model
          /\ UNCHANGED <<trace, process, children>>

\* restartAiderWithModel once no session is left: record the request (and
\* refresh the webview), or report that no workspace is open
RestartRequest(model, ws) ==
  IF ws # ""
  THEN /\ pendingAiderStart' = [model |-> model, workspaceFolder |-> ws]
       /\ requests' = requests + 1
  ELSE UNCHANGED <<pendingAiderStart, requests>>

\* the grace delay of stop() is over: "if (this.process) { kill; null }",
\* then the caller of stop() goes on
StopDelayDone(t, ws) ==
  /\ tasks[t].pc = "stopDelay"
  /\ children' = KillChild(children, process)
  /\ process' = 0
  /\ IF tasks[t].kind \in {"start", "ready"}
     THEN \* startWithSize: this._currentModel = model; await import(...)
          /\ ws = "/ws"
          /\ currentModel' = tasks[t].model
          /\ tasks' = [tasks EXCEPT ![t].pc = "import"]
          /\ UNCHANGED <<provVars, requests>>
     ELSE \* restartAiderWithModel, then handleSendToAider finds no session
          /\ UNCHANGED currentModel
          /\ tasks' = [tasks EXCEPT ![t].pc = "done"]
          /\ RestartRequest(tasks[t].model, ws)
          /\ conversationHistory' =
               Min(MaxHistory, conversationHistory + (IF ws # "" THEN 1 ELSE 2))
  /\ UNCHANGED <<incomingBuffer, cbVars, pipeOk, streamVars, trace>>

\* variant: the terminal is spawned at the fixed default size, as start() does
Spawn_DefaultSize(ch, t, c, cfg) ==
  [ch EXCEPT ![c] = [state |-> "alive", exitPending |-> FALSE,
                     model |-> tasks[t].model, cwd |-> tasks[t].cwd,
                     cols |-> TERMINAL_COLS, rows |-> TERMINAL_ROWS, by |-> t,
                     args |-> buildAiderArgs(tasks[t].model, cfg).args,
                     config |-> cfg]]

\* pty.spawn('aider', args, {cols, rows, env, cwd}) for the call t, args
\* being what buildAiderArgs returned under the configuration cfg
Spawn(ch, t, c, cfg) ==
  [ch EXCEPT ![c] = [state |-> "alive", exitPending |-> FALSE,
                     model |-> tasks[t].model, cwd |-> tasks[t].cwd,
                     cols |-> tasks[t].cols, rows |-> tasks[t].rows, by |-> t,
                     args |-> buildAiderArgs(tasks[t].model, cfg).args,
                     config |-> cfg]]

\* the catch block of startWithSize: clear, notify, rethrow; the caller
\* (handleWebviewReady) reports the error and returns
StartFails(t) ==
  /\ process' = 0
  /\ trace' = notifyError(trace, "process_start")
  /\ conversationHistory' = HistoryAfter(notifyError(trace, "process_start"))
  /\ UNCHANGED <<pendingAiderStart>>

\* the import is over (ok: it succeeded): buildAiderArgs under the
\* configuration cfg, pty.spawn, attachEventHandlers and captureInitialOutput
\* up to "await this.delay(2000)"
ImportDoneWith(t, ok, cfg) ==
  /\ tasks[t].pc = "import"
  /\ IF ok /\ ~buildAiderArgs(tasks[t].model, cfg).threw
     THEN /\ Unborn # {}
          /\ children' = Spawn(children, t, NewChild, cfg)
          /\ process' = NewChild
          /\ tasks' = [tasks EXCEPT ![t].pc = "capture", ![t].child = NewChild]
          /\ UNCHANGED <<trace, provVars>>
     ELSE /\ StartFails(t)
          /\ tasks' = [tasks EXCEPT ![t].pc = "failed"]
          /\ UNCHANGED children
  /\ UNCHANGED <<currentModel, incomingBuffer, cbVars, pipeOk, streamVars, requests>>

\* the same with no configuration file and the default settings
ImportDone(t, ok) == ImportDoneWith(t, ok, NoConfig)

\* the delay of captureInitialOutput is over: this.process.write('\r');
\* on success handleWebviewReady clears the pending request
CaptureDone(t) ==
  /\ tasks[t].pc = "capture"
  /\ IF process # 0 /\ ~PtyWrite(trace, TxtCR).threw
     THEN /\ trace' = PtyWrite(trace, TxtCR).tr
          /\ tasks' = [tasks EXCEPT ![t].pc = "done"]
          /\ pendingAiderStart' =
               IF tasks[t].kind = "ready" THEN NoPending ELSE pendingAiderStart
          /\ UNCHANGED <<process, conversationHistory>>
     ELSE /\ process' = 0
          /\ LET tr1 == IF process # 0 THEN PtyWrite(trace, TxtCR).tr ELSE trace
             IN /\ trace' = notifyError(tr1, "process_start")
                /\ conversationHistory' = HistoryAfter(notifyError(tr1, "process_start"))
          /\ tasks' = [tasks EXCEPT ![t].pc = "failed"]
          /\ UNCHANGED pendingAiderStart
  /\ UNCHANGED <<currentModel, incomingBuffer, cbVars, children, pipeOk,
                 streamVars, requests>>

\* the child terminates on its own (for instance on the exit command)
ChildExits(c) ==
  /\ Alive(c)
  /\ children' = KillChild(children, c)
  /\ UNCHANGED <<process, currentModel, incomingBuffer, cbVars, provVars, tasks,
                 pipeOk, streamVars, requests, trace>>

\* the onExit handler attached to child c by attachEventHandlers
ExitEvent(c) ==
  /\ children[c].exitPending
  /\ children' = [children EXCEPT ![c].exitPending = FALSE]
  /\ LET h == onExitHandler(process, trace, c)
     IN /\ process' = h.proc
        /\ trace' = h.tr
        /\ conversationHistory' = HistoryAfter(h.tr)
  /\ UNCHANGED <<currentModel, incomingBuffer, cbVars, pendingAiderStart, tasks,
                 pipeOk, streamVars, requests>>

\* the pseudo-terminal stops or resumes accepting writes
PipeBreaks ==
  /\ pipeOk /\ pipeOk' = FALSE
  /\ UNCHANGED <<process, currentModel, incomingBuffer, cbVars, provVars,
                 children, tasks, streamVars, requests, trace>>
PipeRecovers ==
  /\ ~pipeOk /\ pipeOk' = TRUE
  /\ UNCHANGED <<process, currentModel, incomingBuffer, cbVars, provVars,
                 children, tasks, streamVars, requests, trace>>

\* ---------------------------------------------------------------------------
\* AiderChatViewProvider: the handlers of the webview's messages
\* ---------------------------------------------------------------------------

\* startNewChatSession(): records a Pending Start Request, spawns nothing
startNewChatSession(ws) ==
  /\ IF ws = ""
     THEN /\ conversationHistory' = Min(MaxHistory, conversationHistory + 1)
          /\ UNCHANGED <<pendingAiderStart, requests>>
     ELSE /\ RequestBudget
          /\ conversationHistory' = 0
          /\ pendingAiderStart' = [model |-> DEFAULT_MODEL, workspaceFolder |-> ws]
          /\ requests' = requests + 1
  /\ UNCHANGED <<process, currentModel, incomingBuffer, cbVars, children, tasks,
                 pipeOk, streamVars, trace>>

\* message startNewChat
StartNewChat(ws) == startNewChatSession(ws)

\* resolveWebviewView -> initializeNewChatIfNeeded
ResolveWebviewView(ws) ==
  /\ conversationHistory = 0
  /\ startNewChatSession(ws)

\* the call recorded in slot t, if any, is over
Completed(t) == tasks[t].pc \in {"free", "done", "failed", "ignored"}

\* message webviewReady{cols, rows} -> handleWebviewReady
WebviewReady(t, cols, rows) ==
  /\ Completed(t)
  /\ IF pendingAiderStart # NoPending /\ ~isRunning
     THEN /\ Cardinality(Unborn) > Cardinality(BeforeSpawn)
          /\ StartWithSizeBegin(t, "ready", pendingAiderStart.model,
                                pendingAiderStart.workspaceFolder, cols, rows, requests)
     ELSE /\ tasks' = [tasks EXCEPT ![t] =
                 [FreeTask EXCEPT !.kind = "ready", !.pc = "ignored",
                                  !.cols = cols, !.rows = rows, !.victim = process]]
          /\ UNCHANGED <<trace, process, children, currentModel>>
  /\ UNCHANGED <<incomingBuffer, cbVars, provVars, pipeOk, streamVars, requests>>

\* message sendToAider{text, model} -> handleSendToAider
SendToAider(t, text, model, ws) ==
  LET call == [FreeTask EXCEPT !.kind = "send", !.model = model, !.victim = process]
      s == StopBegin(trace)
      m == sendMessage(trace, text)
  IN
  /\ Completed(t)
  /\ \/ \* "if (!text?.trim()) return"
        /\ trim(text) = <<>>
        /\ ws = "/ws"
        /\ tasks' = [tasks EXCEPT ![t] = [call EXCEPT !.pc = "ignored"]]
        /\ UNCHANGED <<trace, process, children, provVars, requests>>
     \/ \* model changed, no session: restartAiderWithModel records the request
        /\ trim(text) # <<>> /\ model # currentModel /\ ~isRunning
        /\ RequestBudget
        /\ tasks' = [tasks EXCEPT ![t] = [call EXCEPT !.pc = "done"]]
        /\ RestartRequest(model, ws)
        /\ conversationHistory' =
             Min(MaxHistory, conversationHistory + (IF ws # "" THEN 2 ELSE 3))
        /\ UNCHANGED <<trace, process, children>>
     \/ \* model changed, session running: stop() first, up to its delay
        /\ trim(text) # <<>> /\ model # currentModel /\ isRunning /\ s.delay
        /\ RequestBudget
        /\ ws = "/ws"
        /\ tasks' = [tasks EXCEPT ![t] = [call EXCEPT !.pc = "stopDelay"]]
        /\ trace' = s.tr
        /\ conversationHistory' = Min(MaxHistory, conversationHistory + 1)
        /\ UNCHANGED <<process, children, pendingAiderStart, requests>>
     \/ \* model changed, session running, the exit command cannot be written
        /\ trim(text) # <<>> /\ model # currentModel /\ isRunning /\ ~s.delay
        /\ RequestBudget
        /\ tasks' = [tasks EXCEPT ![t] = [call EXCEPT !.pc = "done"]]
        /\ trace' = s.tr
        /\ process' = s.proc
        /\ children' = s.ch
        /\ RestartRequest(model, ws)
        /\ conversationHistory' =
             Min(MaxHistory, conversationHistory + (IF ws # "" THEN 2 ELSE 3))
     \/ \* same model: send the text if a session is running
        /\ trim(text) # <<>> /\ model = currentModel
        /\ ws = "/ws"
        /\ tasks' = [tasks EXCEPT ![t] = [call EXCEPT !.pc = "done"]]
        /\ trace' = m.tr
        /\ conversationHistory' =
             Min(MaxHistory, conversationHistory +
                   (IF process = 0 THEN 2 ELSE IF m.threw THEN 3 ELSE 1))
        /\ UNCHANGED <<process, children, pendingAiderStart, requests>>
  /\ UNCHANGED <<currentModel, incomingBuffer, cbVars, pipeOk, streamVars>>

LifeInit ==
  /\ process = 0
  /\ currentModel = DEFAULT_MODEL
  /\ incomingBuffer = <<>>
  /\ dataCallbacks = <<ProviderCb>>
  /\ exitCallbacks = <<ProviderCb>>
  /\ errorCallbacks = <<ProviderCb>>
  /\ promptCallbacks = <<ProviderCb>>
  /\ pendingAiderStart = NoPending
  /\ conversationHistory = 0
  /\ children = [c \in ChildIds |-> NoChild]
  /\ tasks = [t \in TaskIds |-> FreeTask]
  /\ pipeOk = TRUE
  /\ stream = <<>>
  /\ pos = 0
  /\ chunks = 0
  /\ requests = 0
  /\ trace = <<>>

Init == LifeInit

\* the lowest free slot is used for a new call
FreeSlot(t) == tasks[t].pc = "free" /\ \A u \in TaskIds : tasks[u].pc = "free" => t <= u

Next ==
  \/ \E ws \in Workspaces : ResolveWebviewView(ws)
  \/ \E ws \in Workspaces : StartNewChat(ws)
  \/ \E t \in TaskIds, sz \in Sizes : FreeSlot(t) /\ WebviewReady(t, sz[1], sz[2])
  \/ \E t \in TaskIds, text \in MsgTexts, m \in Models, ws \in Workspaces :
       FreeSlot(t) /\ SendToAider(t, text, m, ws)
  \/ \E t \in TaskIds, ws \in Workspaces : StopDelayDone(t, ws)
  \/ \E t \in TaskIds, ok \in BOOLEAN : ImportDone(t, ok)
  \/ \E t \in TaskIds : CaptureDone(t)
  \/ \E c \in ChildIds : ChildExits(c)
  \/ \E c \in ChildIds : ExitEvent(c)
  \/ PipeBreaks
  \/ PipeRecovers

\* the extension: the provider drives its AiderProcess
Spec == Init /\ [][Next]_vars

\* ---------------------------------------------------------------------------
\* AiderProcess driven through its public methods by a client
\* ---------------------------------------------------------------------------

\* a call of startWithSize(model, "/ws", cols, rows)
ApiStart(t, model, cols, rows) ==
  /\ tasks[t].pc = "free"
  /\ Cardinality(Unborn) > Cardinality(BeforeSpawn)
  /\ StartWithSizeBegin(t, "start", model, "/ws", cols, rows, 0)
  /\ UNCHANGED <<incomingBuffer, cbVars, provVars, pipeOk, streamVars, requests>>

ApiSteps ==
  \/ \E t \in TaskIds : StopDelayDone(t, "/ws")
  \/ \E t \in TaskIds, ok \in BOOLEAN : ImportDone(t, ok)
  \/ \E t \in TaskIds : CaptureDone(t)
  \/ \E c \in ChildIds : ChildExits(c)
  \/ \E c \in ChildIds : ExitEvent(c)
  \/ PipeBreaks
  \/ PipeRecovers

\* the client may call while an earlier call is in flight
ApiNext ==
  \/ \E t \in TaskIds, m \in Models, sz \in Sizes :
       FreeSlot(t) /\ ApiStart(t, m, sz[1], sz[2])
  \/ ApiSteps

ApiSpec == LifeInit /\ [][ApiNext]_vars

\* the client waits for each call to complete before it makes the next one
SeqNext ==
  \/ \E t \in TaskIds, m \in Models, sz \in Sizes :
       FreeSlot(t) /\ Starting = {} /\ ApiStart(t, m, sz[1], sz[2])
  \/ ApiSteps

SeqSpec == LifeInit /\ [][SeqNext]_vars

\* ---------------------------------------------------------------------------
\* AiderProcess driven by a client that awaits startWithSize and stop
\* ---------------------------------------------------------------------------
InFlight == {t \in TaskIds : ~Completed(t)}
\* a new call is recorded in the lowest slot whose call is over
Slot(t) == Completed(t) /\ \A u \in TaskIds : Completed(u) => t <= u
\* the client makes further calls while the history is within its bound
CallBudget == Len(trace) < MaxTrace

\* what the child may emit around the end of a session
LateChunks == {<<"x">>, CPR_SEQ, TxtYn}

ClientStart(t, model) ==
  /\ Completed(t) /\ CallBudget
  /\ Cardinality(Unborn) > Cardinality(BeforeSpawn)
  /\ StartWithSizeBegin(t, "start", model, "/ws", 100, 30, 0)
  /\ UNCHANGED <<incomingBuffer, cbVars, provVars, pipeOk, streamVars, requests>>

\* stop() up to "await this.delay(1000)"; killOk tells whether IPty.kill()
\* returns or throws. When the write of the exit command throws, the catch
\* block kills and clears; a kill that throws there leaves stop() by exception
ClientStop(t, killOk) ==
  /\ Completed(t) /\ CallBudget
  /\ LET call == [FreeTask EXCEPT !.kind = "stop", !.victim = process]
         w == PtyWrite(trace, TxtExit)
     IN IF process = 0
        THEN /\ tasks' = [tasks EXCEPT ![t] = [call EXCEPT !.pc = "done"]]
             /\ UNCHANGED <<trace, process, children>>
        ELSE IF ~w.threw
        THEN /\ tasks' = [tasks EXCEPT ![t] = [call EXCEPT !.pc = "grace"]]
             /\ trace' = w.tr
             /\ UNCHANGED <<process, children>>
        ELSE IF killOk
        THEN /\ tasks' = [tasks EXCEPT ![t] = [call EXCEPT !.pc = "done"]]
             /\ trace' = w.tr
             /\ children' = KillChild(children, process)
             /\ process' = 0
        ELSE /\ tasks' = [tasks EXCEPT ![t] = [call EXCEPT !.pc = "failed"]]
             /\ trace' = w.tr
             /\ UNCHANGED <<process, children>>
  /\ UNCHANGED <<currentModel, incomingBuffer, cbVars, provVars, pipeOk,
                 streamVars, requests>>

\* the grace delay of stop() is over: "if (this.process) { kill(); null }";
\* a kill that throws is caught, the catch block kills again, and that throw
\* leaves stop() with the session still referenced
StopGraceDone(t, killOk) ==
  /\ tasks[t].pc = "grace"
  /\ IF process = 0
     THEN /\ tasks' = [tasks EXCEPT ![t].pc = "done"]
          /\ UNCHANGED <<process, children>>
     ELSE IF killOk
     THEN /\ tasks' = [tasks EXCEPT ![t].pc = "done"]
          /\ children' = KillChild(children, process)
          /\ process' = 0
     ELSE /\ tasks' = [tasks EXCEPT ![t].pc = "failed"]
          /\ UNCHANGED <<process, children>>
  /\ UNCHANGED <<currentModel, incomingBuffer, cbVars, provVars, pipeOk,
                 streamVars, requests, trace>>

\* a call of sendMessage(text); pc records whether it threw
ClientSendMessage(t, text) ==
  /\ Completed(t) /\ CallBudget
  /\ LET m == sendMessage(trace, text)
     IN /\ trace' = m.tr
        /\ conversationHistory' = HistoryAfter(m.tr)
        /\ tasks' = [tasks EXCEPT ![t] =
              [FreeTask EXCEPT !.kind = "sendMessage", !.victim = process,
                               !.text = text,
                               !.pc = IF m.threw THEN "failed" ELSE "done"]]
  /\ UNCHANGED <<process, currentModel, incomingBuffer, cbVars, pendingAiderStart,
                 children, pipeOk, streamVars, requests>>

\* variant: the exit callbacks stay registered
dispose_KeepsExitCallbacks ==
  /\ children' = KillChild(children, process)
  /\ process' = 0
  /\ dataCallbacks' = <<>> /\ errorCallbacks' = <<>> /\ promptCallbacks' = <<>>
  /\ UNCHANGED <<exitCallbacks, currentModel, incomingBuffer, provVars, tasks,
                 pipeOk, streamVars, requests, trace>>

\* dispose(): kill the session if any, drop every callback
dispose ==
  /\ children' = KillChild(children, process)
  /\ process' = 0
  /\ dataCallbacks' = <<>> /\ exitCallbacks' = <<>>
  /\ errorCallbacks' = <<>> /\ promptCallbacks' = <<>>
  /\ UNCHANGED <<currentModel, incomingBuffer, provVars, tasks, pipeOk,
                 streamVars, requests, trace>>

\* the onData handler attached to child c: output of a live child, or output
\* of a dead one that is delivered before its exit event
ChildData(c, data) ==
  /\ Alive(c) \/ children[c].exitPending
  /\ CallBudget
  /\ LET r == notifyData(data)
     IN /\ incomingBuffer' = r.buf
        /\ trace' = r.tr
        /\ conversationHistory' = HistoryAfter(r.tr)
  /\ UNCHANGED <<process, currentModel, cbVars, pendingAiderStart, children,
                 tasks, pipeOk, streamVars, requests>>

\* the client calls sendMessage and dispose at any time; every write to the
\* pseudo-terminal succeeds
ClientNext ==
  \/ \E t \in TaskIds : FreeSlot(t) /\ InFlight = {} /\ ClientStart(t, "model-b")
  \/ \E t \in TaskIds : FreeSlot(t) /\ ClientSendMessage(t, <<"h", "i">>)
  \/ dispose
  \/ \E c \in ChildIds, d \in LateChunks : ChildData(c, d)
  \/ \E t \in TaskIds : StopDelayDone(t, "/ws")
  \/ \E t \in TaskIds, ok \in BOOLEAN : ImportDone(t, ok)
  \/ \E t \in TaskIds : CaptureDone(t)
  \/ \E c \in ChildIds : ChildExits(c)
  \/ \E c \in ChildIds : ExitEvent(c)

ClientSpec == LifeInit /\ [][ClientNext]_vars

\* the client starts and stops sessions, one call at a time
StopNext ==
  \/ \E t \in TaskIds, m \in Models : Slot(t) /\ InFlight = {} /\ ClientStart(t, m)
  \/ \E t \in TaskIds, killOk \in BOOLEAN :
       Slot(t) /\ InFlight = {} /\ ClientStop(t, killOk)
  \/ \E t \in TaskIds, killOk \in BOOLEAN : StopGraceDone(t, killOk)
  \/ ApiSteps

StopSpec == LifeInit /\ [][StopNext]_vars

\* ---------------------------------------------------------------------------
\* Subscribers: the provider, and a subscriber whose callbacks throw
\* ---------------------------------------------------------------------------
ThrowingCb == 2
Subscribers == {ProviderCb, ThrowingCb}

\* onData(cb); onExit(cb); onError(cb); onPrompt(cb), the way
\* setupProcessEventHandlers subscribes, before the session emits anything
Subscribe(cb) ==
  /\ Len(dataCallbacks) < MaxCallbacks
  /\ trace = <<>> /\ chunks = 0 /\ pipeOk
  /\ \A c \in ChildIds : children[c].state # "dead"
  /\ \A t \in TaskIds : tasks[t].pc = "free"
  /\ dataCallbacks' = Append(dataCallbacks, cb)
  /\ exitCallbacks' = Append(exitCallbacks, cb)
  /\ errorCallbacks' = Append(errorCallbacks, cb)
  /\ promptCallbacks' = Append(promptCallbacks, cb)
  /\ UNCHANGED <<process, currentModel, incomingBuffer, provVars, children, tasks,
                 pipeOk, streamVars, requests, trace>>

CallbackStreams == {<<"x">> \o TxtYn, <<"x">> \o CPR_SEQ \o <<"x">>}

\* a running session nobody has subscribed to yet
CallbackInit ==
  /\ process = 1
  /\ currentModel = DEFAULT_MODEL
  /\ incomingBuffer = <<>>
  /\ dataCallbacks = <<>> /\ exitCallbacks = <<>>
  /\ errorCallbacks = <<>> /\ promptCallbacks = <<>>
  /\ pendingAiderStart = NoPending
  /\ conversationHistory = 0
  /\ children = [c \in ChildIds |-> IF c = 1 THEN RunningSession ELSE NoChild]
  /\ tasks = [t \in TaskIds |-> FreeTask]
  /\ pipeOk = TRUE
  /\ stream \in CallbackStreams
  /\ pos = 0
  /\ chunks = 0
  /\ requests = 0
  /\ trace = <<>>

CallbackNext ==
  \/ \E cb \in Subscribers : Subscribe(cb)
  \/ StreamNext
  \/ \E t \in TaskIds : FreeSlot(t) /\ ClientSendMessage(t, <<"h", "i">>)
  \/ \E c \in ChildIds : ChildExits(c)
  \/ \E c \in ChildIds : ExitEvent(c)
  \/ PipeBreaks

CallbackSpec == CallbackInit /\ [][CallbackNext]_vars

\* ---------------------------------------------------------------------------
\* Claims on the session lifecycle
\* ---------------------------------------------------------------------------
AliveSet == {c \in ChildIds : Alive(c)}
ErrorEvents == SelectSeq(trace, LAMBDA e : e.ev = "error")

\* C1 (as claimed): when a startWithSize that was called while a session was
\* running completes and the child it spawned is alive, that child is the
\* only live child and the one the coordinator references, and the previous
\* child is dead and its exit event has been delivered.
C1_RestartLeavesOneSession ==
  [][\A t \in TaskIds :
       ( /\ tasks[t].kind = "start" /\ tasks[t].victim # 0
         /\ tasks[t].pc = "capture" /\ tasks'[t].pc \in {"done", "failed"}
         /\ children'[tasks[t].child].state = "alive" )
       => /\ AliveSet' = {tasks[t].child}
          /\ process' = tasks[t].child
          /\ children'[tasks[t].victim].state = "dead"
          /\ ~children'[tasks[t].victim].exitPending]_vars

\* C2 (as claimed): once startWithSize calls have overlapped there are never
\* two live children, nor a live child the coordinator does not reference.
C2_OverlapLeavesNoLeak ==
  (\E t \in TaskIds : tasks[t].overlap) =>
    /\ Cardinality(AliveSet) <= 1
    /\ \A c \in AliveSet : process = c

\* C8: a child is born only in the step of a handleWebviewReady call that
\* reaches pty.spawn, with the cols and rows of that webviewReady message and
\* the model and working directory of the Pending Start Request it consumed;
\* start-chat requests, view resolutions and model changes spawn nothing.
C8_SpawnOnlyOnReadyWithItsSize ==
  [][\A c \in ChildIds :
       (children[c].state = "unborn" /\ children'[c].state # "unborn") =>
         \E t \in TaskIds :
           /\ tasks[t].kind = "ready" /\ tasks[t].pc = "import"
           /\ tasks'[t].pc = "capture" /\ tasks'[t].child = c
           /\ children'[c].cols = tasks[t].cols
           /\ children'[c].rows = tasks[t].rows
           /\ children'[c].model = tasks[t].model
           /\ children'[c].cwd = tasks[t].cwd
           /\ tasks[t].req \in 1..requests]_vars

\* a session spawned for a model change request, at the size of the
\* readiness signal that consumed it
C8_Witness ==
  \E c \in ChildIds :
    /\ Alive(c) /\ process = c
    /\ tasks[children[c].by].kind = "ready"
    /\ children[c].model = "model-b"
    /\ children[c].cols = 120 /\ children[c].rows = 40
    /\ \E t \in TaskIds : tasks[t].kind = "send" /\ tasks[t].pc = "done"

\* C9 (as claimed): each Pending Start Request causes at most one call of
\* startWithSize.
C9_RequestStartedOnce ==
  \A r \in 1..MaxRequests :
    Cardinality({t \in TaskIds : /\ tasks[t].kind = "ready"
                                 /\ tasks[t].pc # "ignored"
                                 /\ tasks[t].req = r}) <= 1

\* C10 (as claimed): when a startWithSize fails, the error callbacks have
\* been notified, the coordinator is idle and the child the call spawned, if
\* any, is not alive.
C10_FailedStartLeavesNothing ==
  [][\A t \in TaskIds :
       (tasks[t].pc # "failed" /\ tasks'[t].pc = "failed") =>
         /\ Len(ErrorEvents') > Len(ErrorEvents)
         /\ process' = 0
         /\ (tasks'[t].child # 0 => children'[tasks'[t].child].state # "alive")]_vars

\* a stop() call made while a session was active ends in this step
StopEnds(t) ==
  /\ tasks'[t].kind = "stop" /\ tasks'[t].victim # 0
  /\ tasks'[t] # tasks[t]
  /\ tasks'[t].pc \in {"done", "failed"}

\* C11 (as claimed): when a stop() call made on an active session returns,
\* the coordinator is idle and the child that was active has been
\* terminated, whether the child exited during the grace period or not.
C11_StopEndsIdleChildTerminated ==
  [][\A t \in TaskIds :
       (StopEnds(t) /\ tasks'[t].pc = "done") =>
         /\ process' = 0
         /\ children'[tasks'[t].victim].state = "dead"]_vars

\* C12 (as claimed): however a stop() call made on an active session ends,
\* also when the write of the exit command or the kill throws, isRunning is
\* false afterwards.
C12_StopAlwaysClears ==
  [][\A t \in TaskIds : StopEnds(t) => process' = 0]_vars

\* the exit events delivered to the provider's callback for child c
ExitEventsOf(c) ==
  SelectSeq(trace, LAMBDA e : e.ev = "exit" /\ e.cb = ProviderCb /\ e.child = c)

\* the events the step appends to the history
NewEvents == SubSeq(trace', Len(trace) + 1, Len(trace'))

\* C13 (as claimed): startWithSize(model-a, ws, 100, 30) on an idle
\* coordinator, followed by startWithSize("model-b", ws, 100, 30) before the
\* first call is over: once both calls are over, exactly one exit event has
\* been delivered for the first session and currentModel is "model-b".
C13_OneExitThenModelB ==
  ( /\ tasks[1].kind = "start" /\ tasks[2].kind = "start"
    /\ tasks[1].victim = 0 /\ tasks[1].overlap
    /\ tasks[1].model = DEFAULT_MODEL /\ tasks[2].model = "model-b"
    /\ tasks[1].cols = 100 /\ tasks[1].rows = 30
    /\ tasks[2].cols = 100 /\ tasks[2].rows = 30
    /\ tasks[1].child # 0
    /\ tasks[1].pc \in {"done", "failed"} /\ tasks[2].pc \in {"done", "failed"} )
  => /\ Len(ExitEventsOf(tasks[1].child)) = 1
     /\ currentModel = "model-b"

\* C18: a sendMessage call made while isRunning is false throws and changes
\* nothing: no write to a child, the interception buffer, the session
\* reference, the children and the callback lists are as before, and no
\* callback is invoked.
C18_SendMessageWhenIdle ==
  [][\A t \in TaskIds :
       ( /\ tasks'[t].kind = "sendMessage" /\ tasks'[t] # tasks[t]
         /\ process = 0 )
       => /\ tasks'[t].pc = "failed"
          /\ trace' = trace
          /\ incomingBuffer' = incomingBuffer
          /\ process' = 0 /\ children' = children
          /\ currentModel' = currentModel
          /\ cbVars' = cbVars]_vars

\* a call refused after a session has run and ended, with callbacks registered
C18_Witness ==
  \E t \in TaskIds :
    /\ tasks[t].kind = "sendMessage" /\ tasks[t].pc = "failed" /\ tasks[t].victim = 0
    /\ process = 0 /\ errorCallbacks # <<>>
    /\ \E c \in ChildIds : children[c].state = "dead"
    /\ \A i \in 1..Len(trace) : trace[i].ev # "error"

\* the callbacks have been dropped by dispose()
Disposed == dataCallbacks = <<>>

\* C20: the step of dispose() leaves isRunning false and the child that was
\* active killed, and after it no event (late data, the exit event of the
\* killed child, an error, a prompt) invokes a callback.
C20_DisposeSilencesCallbacks ==
  [][/\ (~Disposed /\ Disposed') =>
          /\ process' = 0
          /\ (process # 0 => children'[process].state = "dead")
          /\ NewEvents = <<>>
     /\ Disposed =>
          /\ Disposed'
          /\ \A i \in 1..Len(NewEvents) : NewEvents[i].cb = 0]_vars

\* dispose() killed the active child, and its exit event and late output
\* have been handled since, without any callback
C20_Witness ==
  /\ Disposed /\ process = 0
  /\ \E c \in ChildIds :
       /\ children[c].state = "dead" /\ ~children[c].exitPending
       /\ ExitEventsOf(c) = <<>>
  /\ \A i \in 1..Len(trace) : trace[i].ev # "exit"
  /\ \E i \in 1..Len(trace) : trace[i].ev = "data"

\* the events are rounds over the callbacks cbs: each round invokes every
\* callback once, in the order of the list, with the same content
InRounds(evs, cbs) ==
  IF cbs = <<>> THEN evs = <<>>
  ELSE LET n == Len(cbs)
       IN /\ Len(evs) % n = 0
          /\ \A j \in 1..Len(evs) :
               LET i == ((j - 1) % n) + 1
               IN /\ evs[j].cb = cbs[i]
                  /\ evs[j].raw = evs[j - i + 1].raw
                  /\ evs[j].child = evs[j - i + 1].child

NewOfKind(kind) == SelectSeq(NewEvents, LAMBDA e : e.ev = kind)

\* C19: every data, exit, error and prompt event a step emits is delivered
\* to all the callbacks registered for it, once each and in registration
\* order, also when one of them throws; the exception does not stop the
\* emitter: the exit handler clears the session, notifyData goes on to answer
\* the queries of the chunk, and a failed sendMessage reports to every error
\* callback.
C19_AllCallbacksInOrder ==
  [][/\ InRounds(NewOfKind("data"), dataCallbacks)
     /\ InRounds(NewOfKind("prompt"), promptCallbacks)
     /\ InRounds(NewOfKind("exit"), exitCallbacks)
     /\ InRounds(NewOfKind("error"), errorCallbacks)
     /\ \A c \in ChildIds :
          (children[c].exitPending /\ ~children'[c].exitPending) =>
            (Len(NewOfKind("exit")) = Len(exitCallbacks) /\ process' = 0)
     /\ \A t \in TaskIds :
          (tasks'[t].kind = "sendMessage" /\ tasks'[t] # tasks[t]
             /\ tasks'[t].pc = "failed" /\ process # 0) =>
            Len(NewOfKind("error")) = Len(errorCallbacks)
     /\ (pos' > pos /\ process # 0) =>
          /\ Len(CprWrites') = CountOcc(SubSeq(stream, 1, pos'), CPR_SEQ)
          /\ (incomingBuffer = <<>> /\ ~Includes(SubSeq(stream, pos + 1, pos'), <<ESC>>)) =>
               Len(NewOfKind("data")) + Len(NewOfKind("prompt")) >= Len(dataCallbacks)]_vars

\* the throwing subscriber came first, and the provider's callbacks were
\* still invoked for a data, a prompt and an exit event
C19_Witness ==
  /\ dataCallbacks = <<ThrowingCb, ProviderCb>>
  /\ \E i, j \in 1..Len(trace) :
       /\ i < j /\ trace[i].ev = "exit" /\ trace[i].cb = ThrowingCb
       /\ trace[j].ev = "exit" /\ trace[j].cb = ProviderCb
  /\ \E i \in 1..Len(trace) : trace[i].ev = "data" /\ trace[i].cb = ProviderCb
  /\ \E i \in 1..Len(trace) : trace[i].ev = "prompt" /\ trace[i].cb = ProviderCb

\* C21: when the child of the running session exits on its own, the step that
\* handles its exit event leaves the coordinator idle and invokes every exit
\* callback exactly once with that child's Exit Info, each callback seeing
\* isRunning false; a sendMessage made after that is refused as not running
\* and writes nothing.
C21_UnexpectedExitGoesIdle ==
  [][/\ \A c \in ChildIds :
          (children[c].exitPending /\ ~children'[c].exitPending /\ process = c) =>
            /\ process' = 0
            /\ NewEvents = [i \in 1..Len(exitCallbacks) |->
                              ExitEv(exitCallbacks[i], c, FALSE)]
            /\ \A i \in 1..Len(trace) : ~(trace[i].ev = "exit" /\ trace[i].child = c)
     /\ \A t \in TaskIds :
          ( /\ tasks'[t].kind = "sendMessage" /\ tasks'[t] # tasks[t]
            /\ \E c \in ChildIds : children[c].state = "dead" /\ ~children[c].exitPending )
          => (tasks'[t].pc = "failed" /\ trace' = trace)]_vars

\* the session's child exited, both subscribers got its exit event with
\* isRunning false, and a later sendMessage was refused
C21_Witness ==
  /\ process = 0 /\ exitCallbacks = <<ThrowingCb, ProviderCb>>
  /\ \E i \in 1..(Len(trace) - 1) :
       /\ trace[i] = ExitEv(ThrowingCb, 1, FALSE)
       /\ trace[i + 1] = ExitEv(ProviderCb, 1, FALSE)
  /\ \E t \in TaskIds :
       tasks[t].kind = "sendMessage" /\ tasks[t].pc = "failed" /\ tasks[t].victim = 0

\* ---------------------------------------------------------------------------
\* Input to a running session: terminal input, prompt responses, resizing
\* ---------------------------------------------------------------------------

\* a call of sendRawData(data), as handleTerminalInput makes it
ClientSendRawData(t, data) ==
  /\ Completed(t) /\ CallBudget
  /\ LET m == sendRawData(trace, data)
     IN /\ trace' = m.tr
        /\ conversationHistory' = HistoryAfter(m.tr)
        /\ tasks' = [tasks EXCEPT ![t] =
              [FreeTask EXCEPT !.kind = "sendRawData", !.victim = process,
                               !.text = data,
                               !.pc = IF m.threw THEN "failed" ELSE "done"]]
  /\ UNCHANGED <<process, currentModel, incomingBuffer, cbVars, pendingAiderStart,
                 children, pipeOk, streamVars, requests>>

\* variant: the arguments reach the pseudo-terminal in the wrong order
resize_SwapsArguments(ch, cols, rows) ==
  IF process = 0 THEN ch
  ELSE IF ch[process].state = "alive"
  THEN [ch EXCEPT ![process].cols = rows, ![process].rows = cols]
  ELSE ch

\* resize(cols, rows): "if (!this.process) return; try { process.resize }";
\* the pseudo-terminal of a child that has exited refuses, which is caught
resize(ch, cols, rows) ==
  IF process = 0 THEN ch
  ELSE IF ch[process].state = "alive"
  THEN [ch EXCEPT ![process].cols = cols, ![process].rows = rows]
  ELSE ch

\* a call of resize(cols, rows)
ClientResize(t, cols, rows) ==
  /\ Completed(t)
  /\ children' = resize(children, cols, rows)
  /\ tasks' = [tasks EXCEPT ![t] =
        [FreeTask EXCEPT !.kind = "resize", !.victim = process, !.pc = "done",
                         !.cols = cols, !.rows = rows]]
  /\ UNCHANGED <<process, currentModel, incomingBuffer, cbVars, provVars, pipeOk,
                 streamVars, requests, trace>>

TxtCursorUp == <<"ESC", "[", "A">>
InputStreams == {<<"x">> \o CPR_SEQ \o <<"x">>, CPR_SEQ \o CPR_SEQ}

\* a running session the provider has subscribed to
InputInit ==
  /\ process = 1
  /\ currentModel = DEFAULT_MODEL
  /\ incomingBuffer = <<>>
  /\ dataCallbacks = <<ProviderCb>> /\ exitCallbacks = <<ProviderCb>>
  /\ errorCallbacks = <<ProviderCb>> /\ promptCallbacks = <<ProviderCb>>
  /\ pendingAiderStart = NoPending
  /\ conversationHistory = 0
  /\ children = [c \in ChildIds |-> IF c = 1 THEN RunningSession ELSE NoChild]
  /\ tasks = [t \in TaskIds |-> FreeTask]
  /\ pipeOk = TRUE
  /\ stream \in InputStreams
  /\ pos = 0
  /\ chunks = 0
  /\ requests = 0
  /\ trace = <<>>

InputNext ==
  \/ StreamNext
  \/ \E t \in TaskIds : FreeSlot(t) /\ ClientSendMessage(t, <<"h", "i">>)
  \/ \E t \in TaskIds : FreeSlot(t) /\ ClientSendRawData(t, TxtCursorUp)
  \/ \E t \in TaskIds, sz \in Sizes : FreeSlot(t) /\ ClientResize(t, sz[1], sz[2])
  \/ \E c \in ChildIds : ChildExits(c)
  \/ \E c \in ChildIds : ExitEvent(c)
  \/ PipeBreaks
  \/ PipeRecovers

InputSpec == InputInit /\ [][InputNext]_vars

\* ---------------------------------------------------------------------------
\* Claims on the input to a running session
\* ---------------------------------------------------------------------------
IsFailedWrite(e) == e.ev = "write" /\ e.kind = "fail"

\* every failed write of the events evs is followed at once by one error
\* event per error callback
FailuresReported(evs) ==
  \A i \in 1..Len(evs) :
    IsFailedWrite(evs[i]) =>
      /\ i + Len(errorCallbacks) <= Len(evs)
      /\ \A k \in 1..Len(errorCallbacks) :
           /\ evs[i + k].ev = "error" /\ evs[i + k].cb = errorCallbacks[k]
           /\ evs[i + k].kind \in {"send_message", "send_raw_data"}

\* C22: a step in which a write to the live session fails (sendMessage,
\* sendRawData, or the synthetic response inside notifyData) reports the
\* failure to every error callback and leaves the session as it was:
\* isRunning true, the child not killed. A failed sendMessage or sendRawData
\* throws to its caller; a failed response does not leave notifyData: the
\* chunk's other queries are still answered and its text still forwarded or
\* buffered.
C22_WriteFailureKeepsSession ==
  [][(\E i \in 1..Len(NewEvents) : IsFailedWrite(NewEvents[i])) =>
       /\ FailuresReported(NewEvents)
       /\ process' = process /\ process # 0
       /\ children' = children
       /\ \A t \in TaskIds :
            (tasks'[t] # tasks[t]) =>
              /\ tasks'[t].pc = "failed"
              /\ Len(NewEvents) = 1 + Len(errorCallbacks)
              /\ NewEvents[2].kind = (IF tasks'[t].kind = "sendMessage"
                                      THEN "send_message" ELSE "send_raw_data")
       /\ (pos' > pos) =>
            /\ Len(CprWrites') = CountOcc(SubSeq(stream, 1, pos'), CPR_SEQ)
            /\ ForwardedConcat' \o incomingBuffer' =
                 RemoveQueries(SubSeq(stream, 1, pos'))]_vars

\* a sendMessage failed, then the response to a query failed inside a chunk
\* whose remaining text was still delivered, and the session is still there
C22_Witness ==
  /\ process = 1 /\ Alive(1)
  /\ \E t \in TaskIds : tasks[t].kind = "sendMessage" /\ tasks[t].pc = "failed"
  /\ \E i \in 1..(Len(trace) - 2) :
       /\ trace[i] = WriteEv(1, CPR_RESP, FALSE)
       /\ trace[i + 1] = ErrorEv(ProviderCb, "send_raw_data")
       /\ trace[i + 2] = DataEv(ProviderCb, <<"x">>)

\* C25: a resize(cols, rows) call invokes no callback, writes nothing and
\* leaves isRunning, currentModel, the interception buffer and the Pending
\* Start Request as they were; without a session it changes nothing at all,
\* with a live session it sets that session's pseudo-terminal to exactly
\* cols and rows.
C25_ResizeOnlyResizes ==
  [][\A t \in TaskIds :
       (tasks'[t].kind = "resize" /\ tasks'[t] # tasks[t]) =>
         /\ trace' = trace /\ process' = process /\ currentModel' = currentModel
         /\ incomingBuffer' = incomingBuffer /\ cbVars' = cbVars
         /\ pendingAiderStart' = pendingAiderStart
         /\ (process = 0 => children' = children)
         /\ (process # 0 /\ Alive(process)) =>
              children' = [children EXCEPT ![process].cols = tasks'[t].cols,
                                           ![process].rows = tasks'[t].rows]]_vars

\* one call resized the live session, a later one found no session
C25_Witness ==
  \E t, u \in TaskIds :
    /\ tasks[t].kind = "resize" /\ tasks[t].victim = 1
    /\ children[1].cols = 120 /\ children[1].rows = 40 /\ tasks[t].cols = 120
    /\ tasks[u].kind = "resize" /\ tasks[u].victim = 0 /\ tasks[u].cols = 100
    /\ process = 0

\* ---------------------------------------------------------------------------
\* Messages and prompt responses typed by the user
\* ---------------------------------------------------------------------------
\* handleInteractiveResponse: the terminal input for the user's response
terminalInput(response) ==
  LET lower == toLowerCase(response)
  IN IF lower = <<"y", "e", "s">> \/ lower = <<"y">> THEN <<"y", "LF">>
     ELSE IF lower = <<"n", "o">> \/ lower = <<"n">> THEN <<"n", "LF">>
     ELSE IF lower = <<"c", "o", "n", "t", "i", "n", "u", "e">> THEN <<"LF">>
     ELSE response \o <<"LF">>

\* message interactiveResponse{response} -> handleInteractiveResponse:
\* "if (!isRunning) return; this.aiderProcess.sendMessage(terminalInput)"
InteractiveResponse(t, response) ==
  /\ Completed(t) /\ CallBudget
  /\ LET call == [FreeTask EXCEPT !.kind = "interactiveResponse", !.victim = process,
                                  !.text = response]
         m == sendMessage(trace, terminalInput(response))
     IN IF ~isRunning
        THEN /\ tasks' = [tasks EXCEPT ![t] = [call EXCEPT !.pc = "ignored"]]
             /\ UNCHANGED <<trace, conversationHistory>>
        ELSE /\ tasks' = [tasks EXCEPT ![t] =
                   [call EXCEPT !.pc = IF m.threw THEN "failed" ELSE "done"]]
             /\ trace' = m.tr
             /\ conversationHistory' = HistoryAfter(m.tr)
  /\ UNCHANGED <<process, currentModel, incomingBuffer, cbVars, pendingAiderStart,
                 children, pipeOk, streamVars, requests>>

\* message texts: every kind of byte alone, and mixed texts
SanTexts ==
  {<<c>> : c \in ControlBytes \cup {"a"}}
    \cup {<<>>, <<"a", "ESC", "b", "TAB", "c">>, <<"NUL", "a", "LF", "DEL", "CR", "a">>}
Responses ==
  {<<"Y", "e", "s">>, <<"y">>, <<"N", "O">>, <<"n">>,
   <<"C", "o", "n", "t", "i", "n", "u", "e">>, <<"a", "b">>, <<"a", "ESC">>, <<>>}

MsgNext ==
  \/ \E t \in TaskIds, text \in SanTexts : FreeSlot(t) /\ ClientSendMessage(t, text)
  \/ \E t \in TaskIds, r \in Responses : FreeSlot(t) /\ InteractiveResponse(t, r)
  \/ \E c \in ChildIds : ChildExits(c)
  \/ \E c \in ChildIds : ExitEvent(c)
  \/ PipeBreaks

MsgSpec == InputInit /\ [][MsgNext]_vars

\* the text without the bytes of the set removed, the rest in order
Without(text, removed) == SelectSeq(text, LAMBDA c : c \notin removed)

\* the step makes exactly one write, of the text, to the current session
WritesOnce(text) ==
  LET ws == SelectSeq(NewEvents, LAMBDA e : e.ev = "write")
  IN Len(ws) = 1 /\ ws[1].text = text /\ ws[1].child = process

\* a call of kind `kind` is made in this step on a session
CallOnSession(t, kind) ==
  tasks'[t].kind = kind /\ tasks'[t] # tasks[t] /\ process # 0

\* C23 (as claimed): sendMessage on a running session performs exactly one
\* write: the text without any byte of 0x00-0x1F and 0x7F other than LF and
\* CR, followed by one carriage return.
C23_StripsAllButLineEndings ==
  [][\A t \in TaskIds :
       CallOnSession(t, "sendMessage") =>
         WritesOnce(Without(tasks'[t].text, ControlBytes \ {"LF", "CR"}) \o <<"CR">>)]_vars

\* C23 (amended): sendMessage on a running session performs exactly one
\* write: the text without any byte of 0x00-0x1F and 0x7F other than TAB, LF
\* and CR, all other characters unchanged and in order, followed by exactly
\* one carriage return.
C23_StripsAllButTabAndLineEndings ==
  [][\A t \in TaskIds :
       CallOnSession(t, "sendMessage") =>
         WritesOnce(Without(tasks'[t].text, ControlBytes \ {"TAB", "LF", "CR"})
                      \o <<"CR">>)]_vars

\* a text with stripped and kept control bytes has been sent
C23_Witness ==
  \E t \in TaskIds :
    /\ tasks[t].kind = "sendMessage" /\ tasks[t].pc = "done"
    /\ tasks[t].text = <<"a", "ESC", "b", "TAB", "c">>
    /\ \E i \in 1..Len(trace) :
         trace[i] = WriteEv(1, <<"a", "b", "TAB", "c", "CR">>, TRUE)

\* C24 (as claimed): a prompt response received while a session is running
\* is written to the child as exactly the translated input: "y" LF for
\* yes/y, "n" LF for no/n, LF for continue, the response and LF otherwise,
\* nothing stripped and no further line ending.
C24_ResponseWrittenRaw ==
  [][\A t \in TaskIds :
       CallOnSession(t, "interactiveResponse") =>
         WritesOnce(terminalInput(tasks'[t].text))]_vars

\* ---------------------------------------------------------------------------
\* Sessions started under the user's configuration file
\* ---------------------------------------------------------------------------

\* the client starts a session and restarts it once, one call at a time; the
\* import succeeds
ArgsNext ==
  \/ \E t \in TaskIds, m \in Models :
       /\ FreeSlot(t) /\ InFlight = {}
       /\ Cardinality(Unborn) >= MaxChildren - 1
       /\ ClientStart(t, m)
  \/ \E t \in TaskIds : StopDelayDone(t, "/ws")
  \/ \E t \in TaskIds, cfg \in Configs : ImportDoneWith(t, TRUE, cfg)
  \/ \E t \in TaskIds : CaptureDone(t)
  \/ \E c \in ChildIds : ChildExits(c)
  \/ \E c \in ChildIds : ExitEvent(c)

ArgsSpec == LifeInit /\ [][ArgsNext]_vars

\* the default list: model flag and model, then the compatibility flags
DefaultList(model, cfg) ==
  <<"--model", model, "--no-gui", "--no-browser", "--no-copy-paste">>
    \o (IF cfg.noPretty THEN <<"--no-pretty">> ELSE <<>>)

\* the flags a valid file adds, in the fixed order
ConfigFlags(cfg) ==
  (IF cfg.editFormat # "" THEN <<"--edit-format", cfg.editFormat>> ELSE <<>>)
    \o (IF cfg.showDiffs THEN <<"--show-diffs">> ELSE <<>>)
    \o (IF cfg.restore THEN <<"--restore-chat-history">> ELSE <<>>)
    \o [i \in 1..(2 * Len(cfg.entries)) |->
          IF i % 2 = 1 THEN "--set-env" ELSE KeyValue(cfg.entries[i \div 2])]

\* C26: a startWithSize call whose import succeeded goes on to spawn the
\* child whatever the configuration file is; the child's argument list is
\* exactly the default list when the file is missing, unreadable or
\* malformed, and the default list followed by the flags of the file (edit
\* format, diff display, history restoration, environment overrides, in that
\* order) when the file is valid.
C26_ArgsNeverRaise ==
  [][\A t \in TaskIds :
       (tasks[t].pc = "import" /\ tasks'[t] # tasks[t]) =>
         /\ tasks'[t].pc = "capture" /\ tasks'[t].child # 0
         /\ LET c == tasks'[t].child
                cfg == children'[c].config
                args == children'[c].args
            IN /\ children[c].state = "unborn" /\ children'[c].state = "alive"
               /\ process' = c
               /\ cfg.file # "valid" => args = DefaultList(tasks[t].model, cfg)
               /\ cfg.file = "valid" =>
                    args = DefaultList(tasks[t].model, cfg) \o ConfigFlags(cfg)]_vars

\* one session was spawned with a malformed file, the next with a file that
\* sets every key
C26_Witness ==
  \E c, d \in ChildIds :
    /\ children[c].config.file = "malformed" /\ Len(children[c].args) = 5
    /\ children[d].config.file = "valid" /\ Alive(d) /\ process = d
    /\ children[d].args =
         <<"--model", "model-b", "--no-gui", "--no-browser", "--no-copy-paste",
           "--edit-format", "diff", "--show-diffs", "--restore-chat-history",
           "--set-env", "A=1", "--set-env", "B=2">>

\* ---------------------------------------------------------------------------
\* The display surface and a running session: size reports, model changes
\* ---------------------------------------------------------------------------

\* message terminalResize{cols, rows} -> handleTerminalResize:
\* "if (this.aiderProcess.isRunning) this.aiderProcess.resize(cols, rows)"
TerminalResize(t, cols, rows) ==
  /\ tasks[t].pc = "free"
  /\ children' = IF isRunning THEN resize(children, cols, rows) ELSE children
  /\ tasks' = [tasks EXCEPT ![t] =
        [FreeTask EXCEPT !.kind = "terminalResize", !.victim = process,
                         !.cols = cols, !.rows = rows,
                         !.pc = IF isRunning THEN "done" ELSE "ignored"]]
  /\ UNCHANGED <<process, currentModel, incomingBuffer, cbVars, provVars, pipeOk,
                 streamVars, requests, trace>>

\* a running session whose child emits nothing
SurfaceInit == StreamInit /\ stream = <<>>

SurfaceNext ==
  \/ StartNewChat("/ws")
  \/ \E t \in TaskIds, sz \in Sizes : FreeSlot(t) /\ WebviewReady(t, sz[1], sz[2])
  \/ \E t \in TaskIds, sz \in Sizes : FreeSlot(t) /\ TerminalResize(t, sz[1], sz[2])
  \/ \E t \in TaskIds : FreeSlot(t) /\ SendToAider(t, <<"h", "i">>, "model-b", "/ws")
  \/ \E t \in TaskIds : StopDelayDone(t, "/ws")
  \/ \E t \in TaskIds, ok \in BOOLEAN : ImportDone(t, ok)
  \/ \E t \in TaskIds : CaptureDone(t)
  \/ \E c \in ChildIds : ChildExits(c)
  \/ \E c \in ChildIds : ExitEvent(c)

SurfaceSpec == SurfaceInit /\ [][SurfaceNext]_vars

\* ---------------------------------------------------------------------------
\* Claims on sessions that follow one another
\* ---------------------------------------------------------------------------

\* C27 (as claimed): the exit event of a child that is not the current
\* session leaves the reference to the current session in place: isRunning
\* stays true while the current child is alive.
C27_StaleExitKeepsSession ==
  [][\A c \in ChildIds :
       ( /\ children[c].exitPending /\ ~children'[c].exitPending
         /\ process # 0 /\ process # c /\ Alive(process) )
       => process' = process]_vars

\* C28 (as claimed): the end of the grace period of a stop() call kills and
\* clears only the session that was active when stop() was called: a session
\* spawned during the grace period stays alive and referenced.
C28_StopKillsOnlyItsSession ==
  [][\A t \in TaskIds :
       ( /\ tasks[t].pc = "stopDelay" /\ tasks'[t].pc # "stopDelay"
         /\ process # 0 /\ process # tasks[t].victim )
       => /\ process' = process
          /\ children'[process].state = children[process].state]_vars

\* C29 (as claimed): a Pending Start Request recorded while a start was in
\* flight is still pending when that start completes.
C29_RequestSurvivesStart ==
  [][\A t \in TaskIds :
       ( /\ tasks[t].kind = "ready" /\ tasks[t].pc = "capture" /\ tasks'[t].pc = "done"
         /\ requests > tasks[t].req )
       => pendingAiderStart' # NoPending]_vars

\* the calls that reported a size: the readiness signals that started a
\* session and the resize messages; calls take the slots in the order they
\* are made, so the highest slot holds the most recent report
Reports ==
  {t \in TaskIds : \/ tasks[t].kind = "ready" /\ tasks[t].pc # "ignored"
                   \/ tasks[t].kind = "terminalResize"}
LatestReport == CHOOSE t \in Reports : \A u \in Reports : u <= t

\* C30 (as claimed): whenever a session is running and no call is in flight,
\* the size of its pseudo-terminal is the size most recently reported, by
\* the webviewReady message that started it or by a terminalResize message,
\* also one that arrived between that webviewReady and the spawn.
C30_SizeIsLatestReport ==
  (process # 0 /\ Alive(process) /\ InFlight = {} /\ Reports # {}) =>
    /\ children[process].cols = tasks[LatestReport].cols
    /\ children[process].rows = tasks[LatestReport].rows

\* ---------------------------------------------------------------------------
\* Successive sessions of one AiderProcess: the running session emits part of
\* `stream`, ends, and the session started next emits the rest
\* ---------------------------------------------------------------------------
SessionsNext ==
  \/ StreamNext
  \/ \E t \in TaskIds : Slot(t) /\ InFlight = {} /\ ClientStart(t, "model-b")
  \/ \E t \in TaskIds : StopDelayDone(t, "/ws")
  \/ \E t \in TaskIds, ok \in BOOLEAN : ImportDone(t, ok)
  \/ \E t \in TaskIds : CaptureDone(t)
  \/ \E c \in ChildIds : ChildExits(c)
  \/ \E c \in ChildIds : ExitEvent(c)

SessionsSpec == InputInit /\ [][SessionsNext]_vars

\* C31 (as claimed): the interception buffer is empty when a new session
\* starts (the step that spawns its child leaves the buffer empty), so
\* nothing retained from an earlier session is delivered as output of the new
\* one or completes a query with the new session's bytes.
C31_BufferEmptyAtSessionStart ==
  [][(process' # 0 /\ process' # process) => incomingBuffer' = <<>>]_vars

\* ---------------------------------------------------------------------------
\* Claims on the model identifier
\* ---------------------------------------------------------------------------

\* C32 (as claimed): whenever isRunning is true, currentModel is the model
\* identifier the active child was spawned with, also when calls of
\* startWithSize overlap.
C32_CurrentModelIsSessionModel ==
  isRunning => currentModel = children[process].model

\* ---------------------------------------------------------------------------
\* dispose() while calls of startWithSize are in flight; the client makes no
\* call after dispose()
\* ---------------------------------------------------------------------------
DisposeNext ==
  \/ \E t \in TaskIds, m \in Models : FreeSlot(t) /\ ~Disposed /\ ClientStart(t, m)
  \/ dispose
  \/ \E t \in TaskIds : StopDelayDone(t, "/ws")
  \/ \E t \in TaskIds, ok \in BOOLEAN : ImportDone(t, ok)
  \/ \E t \in TaskIds : CaptureDone(t)
  \/ \E c \in ChildIds : ChildExits(c)
  \/ \E c \in ChildIds : ExitEvent(c)

DisposeSpec == LifeInit /\ [][DisposeNext]_vars

\* C33 (as claimed): once dispose() has returned and no start is requested
\* afterwards, no session is active and no child is alive: a startWithSize
\* that was in flight when dispose() ran leaves no live child behind.
C33_NoSessionAfterDispose ==
  Disposed => (process = 0 /\ AliveSet = {})

\* ---------------------------------------------------------------------------
\* A session that emits its stream and ends: the event loop delivers every
\* chunk and the exit event, so a run goes on until the child has exited and
\* its exit event has been handled; after that nothing is left to happen
\* ---------------------------------------------------------------------------
DrainNext ==
  \/ StreamNext
  \/ \E c \in ChildIds : ChildExits(c)
  \/ \E c \in ChildIds : ExitEvent(c)

\* output that ends with a colour reset, with text, or with both after a query
DrainInit ==
  /\ StreamInit
  /\ stream \in { Pad(2) \o TxtColourReset \o Pad(2),
                   TxtHello \o CPR_SEQ \o TxtWorld,
                   TxtYn \o CPR_SEQ \o Pad(1) \o TxtColourReset }

DrainSpec == DrainInit /\ [][DrainNext]_vars /\ WF_vars(DrainNext)

\* C34 (as claimed): every byte of output that is not part of a query or of a
\* trailing partial query is eventually delivered even if no further chunk
\* arrives: time and again the buffer holds nothing but the partial query the
\* received stream ends with, and nothing at all once the session has exited
\* (which every run of DrainSpec ends with).
C34_OutputEventuallyDelivered ==
  []<>(incomingBuffer = IF process = 0 THEN <<>> ELSE TrailingPrefix(Received))

\* ---------------------------------------------------------------------------
\* Claims on prompt detection and delivery order (StreamSpec)
\* ---------------------------------------------------------------------------

\* the history notifyData produces when the text s arrives as one chunk on an
\* empty buffer
WholeChunk(s) == FlushRule(TailRule(CprLoop(s, <<>>))).tr

\* C35 (as claimed): for an ESC-free stream that contains a prompt pattern,
\* every way of cutting it into chunks gives the same Prompt Descriptors and
\* the same text on the data callbacks as its delivery in one chunk does.
C35_ChunkingIndependent ==
  (EscFree(Received) /\ needsResponse(Received)) =>
    /\ PromptEvents = SelectSeq(WholeChunk(Received), IsPrompt)
    /\ DataConcat = ConcatText(SelectSeq(WholeChunk(Received), IsData))

\* C36: every fragment a chunk hands to the forward path is non-empty and is
\* delivered on exactly one channel, the prompt callbacks if it matches a
\* prompt pattern and the data callbacks otherwise; the fragments of the step
\* and the buffer it leaves make up the buffer before the step and the chunk,
\* less the queries, so no fragment is delivered twice or dropped.
C36_OneChannelPerFragment ==
  [][pos' > pos =>
       LET f == SelectSeq(NewEvents, IsForwarded)
       IN /\ \A i \in 1..Len(f) :
               /\ f[i].raw # <<>>
               /\ IsPrompt(f[i]) <=> needsResponse(f[i].raw)
               /\ IsData(f[i]) <=> ~needsResponse(f[i].raw)
          /\ ConcatRaw(f) \o incomingBuffer' =
               RemoveQueries(incomingBuffer \o SubSeq(stream, pos + 1, pos'))]_vars

\* one chunk gave a fragment that went to the prompt callbacks only and a
\* fragment that went to the data callbacks only
C36_Witness ==
  /\ chunks = 1 /\ Received = TxtYn \o Pad(16)
  /\ SelectSeq(trace, IsForwarded) =
       <<PromptEv(ProviderCb, TxtYn, <<"Yes", "No">>, "confirmation", TxtYn),
         DataEv(ProviderCb, Pad(16))>>

\* the classification as the claim states it
ClaimedPrompt(s) ==
  \E i \in 1..Len(promptPatterns) :
    Includes(toLowerCase(s), toLowerCase(promptPatterns[i]))
ClaimedContinue(s) ==
  \E q \in {TxtIncPressReturn, TxtIncPressEnter, TxtIncPressAnyKey} :
    Includes(toLowerCase(s), q)
\* t is s without its leading and trailing whitespace
IsTrimOf(t, s) ==
  /\ \E a \in 0..Len(s) :
       /\ a + Len(t) <= Len(s)
       /\ t = SubSeq(s, a + 1, a + Len(t))
       /\ \A k \in (1..a) \cup ((a + Len(t) + 1)..Len(s)) : s[k] \in WhiteSpace
  /\ t # <<>> => (t[1] \notin WhiteSpace /\ t[Len(t)] \notin WhiteSpace)

\* C37: a forwarded fragment is a prompt iff it matches one of the seven
\* patterns, case-insensitively; the descriptor's kind is continue with the
\* option Continue iff the fragment contains "press return", "press enter" or
\* "press any key" in any case, and confirmation with Yes, No otherwise; its
\* text is the fragment trimmed; so the descriptor is a function of the
\* fragment alone.
C37_ClassificationIsPure ==
  \A i \in 1..Len(trace) :
    LET e == trace[i]
    IN /\ IsForwarded(e) => (IsPrompt(e) <=> ClaimedPrompt(e.raw))
       /\ IsPrompt(e) =>
            /\ e.kind = IF ClaimedContinue(e.raw) THEN "continue" ELSE "confirmation"
            /\ e.opt = IF ClaimedContinue(e.raw) THEN <<"Continue">> ELSE <<"Yes", "No">>
            /\ IsTrimOf(e.text, e.raw)

\* a fragment that matches only a yes/no pattern and contains "press enter"
\* was classified as a continuation prompt
C37_Witness ==
  /\ Received = TxtIncPressEnter \o TxtYn /\ chunks = 1
  /\ Len(PromptEvents) = 1 /\ PromptEvents[1].kind = "continue"
  /\ PromptEvents[1].opt = <<"Continue">>
  /\ ~RegexTest(TxtPressEnter, Received)

\* C39: for every stream and every chunking, the fragments delivered to the
\* data and prompt callbacks, concatenated in delivery order, followed by the
\* buffered tail, are the received stream with its query occurrences deleted
\* and nothing else: no byte is delivered twice, dropped or moved; a prompt
\* callback receives its fragment trimmed and a data callback receives its
\* fragment as it is.
C39_DeliveredInOrderOnce ==
  /\ ForwardedConcat \o incomingBuffer = RemoveQueries(Received)
  /\ Len(ForwardedConcat) + Len(incomingBuffer) + Len(CPR_SEQ) * Len(CprWrites)
       = Len(Received)
  /\ \A i \in 1..Len(trace) :
       /\ IsPrompt(trace[i]) => trace[i].text = trim(trace[i].raw)
       /\ IsData(trace[i]) => trace[i].text = trace[i].raw

\* a prompt, a query, text and a colour reset in three chunks: the prompt was
\* delivered, the query answered and deleted, and the rest is buffered
C39_Witness ==
  /\ Received = TxtYn \o CPR_SEQ \o Pad(1) \o TxtColourReset /\ chunks = 3
  /\ Len(CprWrites) = 1
  /\ ConcatRaw(SelectSeq(trace, IsForwarded)) = TxtYn
  /\ incomingBuffer = Pad(1) \o TxtColourReset

\* ---------------------------------------------------------------------------
\* The provider's handlers over a longer run: a slot is used again once its
\* call is over; every write to the pseudo-terminal and every import succeeds
\* ---------------------------------------------------------------------------
ModelNext ==
  \/ StartNewChat("/ws")
  \/ \E t \in TaskIds : Slot(t) /\ CallBudget /\ WebviewReady(t, 100, 30)
  \/ \E t \in TaskIds, m \in Models :
       Slot(t) /\ CallBudget /\ SendToAider(t, <<"h", "i">>, m, "/ws")
  \/ \E t \in TaskIds : StopDelayDone(t, "/ws")
  \/ \E t \in TaskIds : ImportDone(t, TRUE)
  \/ \E t \in TaskIds : CaptureDone(t)
  \/ \E c \in ChildIds : ChildExits(c)
  \/ \E c \in ChildIds : ExitEvent(c)

ModelSpec == LifeInit /\ [][ModelNext]_vars

\* the step is the call of handleSendToAider recorded in slot t
IsSendCall(t) ==
  tasks[t].pc # "stopDelay" /\ tasks'[t] # tasks[t] /\ tasks'[t].kind = "send"

\* C38 (as claimed): the text of a sendToAider message is written only to a
\* session that was spawned with the model the message names; when the
\* message names another model than currentModel and a session is running,
\* the handler writes nothing but the exit command of stop(), and when stop()
\* is over no session is left, the Pending Start Request names the new model
\* and the text has not been written.
C38_MessageOnlyToItsModel ==
  [][\A t \in TaskIds :
       /\ IsSendCall(t) =>
            /\ \A i \in 1..Len(NewEvents) :
                 (NewEvents[i].ev = "write" /\ NewEvents[i].text # TxtExit) =>
                   children[NewEvents[i].child].model = tasks'[t].model
            /\ (tasks'[t].model # currentModel /\ isRunning) =>
                 \A i \in 1..Len(NewEvents) :
                   NewEvents[i].ev = "write" => NewEvents[i].text = TxtExit
       /\ (tasks[t].kind = "send" /\ tasks[t].pc = "stopDelay"
             /\ tasks'[t].pc = "done") =>
            /\ process' = 0
            /\ pendingAiderStart'.model = tasks[t].model
            /\ NewEvents = <<>>]_vars

====
